---- MODULE Spec2Model ----
(***************************************************************************)
(* CliFM trash manager (src/src/trash.c) and the listing filter it shares  *)
(* with the sort engine (src/src/sort.c), as a state machine.              *)
(*                                                                         *)
(* File names and paths are sequences of one-character strings, so that    *)
(* truncation, percent-encoding and prefix tests act on characters.        *)
(***************************************************************************)
EXTENDS Integers, Sequences, FiniteSets, TLC

(***************************************************************************)
(* Bounds of the model                                                     *)
(***************************************************************************)
\* Commands (and environment steps) in one session.
MaxCmds == 3
\* Length of the long base name (long enough to need truncation).
LongLen == 236
\* Seconds on the clock (each gives a different deletion suffix).
MaxTime == 2

(***************************************************************************)
(* Program constants                                                       *)
(***************************************************************************)
NAME_MAX == 255

EXIT_SUCCESS == "EXIT_SUCCESS"
EXIT_FAILURE == "EXIT_FAILURE"

(***************************************************************************)
(* Strings                                                                 *)
(***************************************************************************)
NULL == <<>>

Rep(c, n) == [i \in 1..n |-> c]

\* Index of the last occurrence of c in s, 0 when there is none.
strrchr(s, c) ==
    LET I == {i \in 1..Len(s) : s[i] = c}
    IN  IF I = {} THEN 0 ELSE CHOOSE i \in I : \A j \in I : j <= i

\* Index of the first occurrence of c in s, -1 when there is none.
strcntchr(s, c) ==
    LET I == {i \in 1..Len(s) : s[i] = c}
    IN  IF I = {} THEN -1 ELSE CHOOSE i \in I : \A j \in I : i <= j

\* The part of s before the last c; NULL when c is absent or nothing precedes it.
strbfrlst(s, c) ==
    LET p == strrchr(s, c)
    IN  IF p <= 1 THEN NULL ELSE SubSeq(s, 1, p - 1)

\* The i-th byte of the C string s; the terminating NUL after its end.
CharAt(s, i) == IF i <= Len(s) THEN s[i] ELSE "NUL"

\* strncmp(a, b, n) == 0: the first n bytes agree, up to and including a NUL.
strncmp_eq(a, b, n) ==
    LET m == IF n < Len(a) + 1 THEN n ELSE Len(a) + 1
    IN  \A i \in 1..m : CharAt(a, i) = CharAt(b, i)

\* snprintf(buf, len, "%s/%s", dir, name)
PathJoin(dir, name) == dir \o <<"/">> \o name

(***************************************************************************)
(* The world: one workspace directory, the trash directory, two files      *)
(***************************************************************************)
WsPath == <<"/", "w">>
trash_dir == <<"/", "t">>
trash_files_dir == trash_dir \o <<"/", "f", "i", "l", "e", "s">>
trash_info_dir == trash_dir \o <<"/", "i", "n", "f", "o">>
TrashInfoExt == <<".", "t", "r", "a", "s", "h", "i", "n", "f", "o">>

\* A hidden name with a character that percent-encoding must escape.
ShortName == <<".", "a", " ", "b">>
\* A name so long that name.suffix.trashinfo exceeds NAME_MAX.
LongName == Rep("x", LongLen)

NoFile == [kind |-> "none", data |-> "none", immut |-> FALSE]

InitLive ==
    [p \in {PathJoin(WsPath, ShortName), PathJoin(WsPath, LongName)} |->
        IF p = PathJoin(WsPath, ShortName)
        THEN [kind |-> "reg", data |-> "short", immut |-> FALSE]
        ELSE [kind |-> "reg", data |-> "long", immut |-> FALSE]]

\* What a user may type as a path argument of the trash command.
PathArgs ==
    {ShortName, LongName, PathJoin(WsPath, ShortName), PathJoin(WsPath, LongName)}

(***************************************************************************)
(* Percent-encoding of the original path (RFC 2396)                        *)
(***************************************************************************)
Unreserved ==
    {"a", "b", "w", "x", "t", "f", "i", "l", "e", "s", "n", "o", "r", "h",
     "0", "1", "2", "3", "4", "5", "6", "7", "8", "9", "-", "_", ".", "~", "/"}

HexOf(c) == IF c = " " THEN <<"2", "0">> ELSE IF c = "%" THEN <<"2", "5">> ELSE <<"3", "F">>

FromHex(h, l) ==
    IF <<h, l>> = <<"2", "0">> THEN " "
    ELSE IF <<h, l>> = <<"2", "5">> THEN "%" ELSE "?"

RECURSIVE EncodeChars(_)
EncodeChars(s) ==
    IF s = <<>> THEN <<>>
    ELSE (IF Head(s) \in Unreserved THEN <<Head(s)>> ELSE <<"%">> \o HexOf(Head(s)))
         \o EncodeChars(Tail(s))

\* Every byte outside the unreserved set becomes %XX.
url_encode(s) ==
    IF \A i \in 1..Len(s) : s[i] \in Unreserved THEN s ELSE EncodeChars(s)

RECURSIVE DecodeChars(_)
DecodeChars(s) ==
    IF s = <<>> THEN <<>>
    ELSE IF Head(s) = "%" /\ Len(s) >= 3
         THEN <<FromHex(s[2], s[3])>> \o DecodeChars(SubSeq(s, 4, Len(s)))
         ELSE <<Head(s)>> \o DecodeChars(Tail(s))

\* Every %XX becomes the byte it stands for.
url_decode(s) ==
    IF \A i \in 1..Len(s) : s[i] # "%" THEN s ELSE DecodeChars(s)

(***************************************************************************)
(* Deletion suffix: the digits of the deletion time, second resolution     *)
(***************************************************************************)
Digit(n) == <<"0", "1", "2", "3", "4", "5", "6", "7", "8", "9">>[n + 1]

gen_date_suffix(t) ==
    <<"2", "0", "2", "3", "1", "1", "0", "6", "1", "2", "0", "0", "0">> \o <<Digit(t)>>

(***************************************************************************)
(* The file system seen through the system calls the code makes            *)
(*   fs.live  : absolute path -> file, the files outside the trash         *)
(*   fs.files : name -> file, the entries of trash_files_dir               *)
(*   fs.info  : name -> sidecar, the entries of trash_info_dir             *)
(*   fs.wx    : directory -> whether access(dir, W_OK | X_OK) succeeds     *)
(***************************************************************************)
Basename(p) == SubSeq(p, strrchr(p, "/") + 1, Len(p))

\* Index of the first c of s after index i, Len(s) + 1 when there is none.
NextChr(s, c, i) ==
    LET I == {j \in (i + 1)..Len(s) : s[j] = c}
    IN  IF I = {} THEN Len(s) + 1 ELSE CHOOSE j \in I : \A k \in I : j <= k

\* One component of a path walked by the kernel: "." and the empty component
\* stay where they are, ".." goes to the parent, a name goes down.
WalkComponent(acc, comp) ==
    IF comp \in {<<>>, <<".">>} THEN acc
    ELSE IF comp = <<".", ".">> THEN strbfrlst(acc, "/")
    ELSE acc \o <<"/">> \o comp

RECURSIVE WalkFrom(_, _, _)
WalkFrom(p, i, acc) ==
    IF i > Len(p) THEN (IF acc = <<>> THEN <<"/">> ELSE acc)
    ELSE WalkFrom(p, NextChr(p, "/", i),
                  WalkComponent(acc, SubSeq(p, i + 1, NextChr(p, "/", i) - 1)))

\* The place the kernel reaches by the absolute path p (no symbolic link is
\* followed on the way: the directories of this world are real).
Canon(p) ==
    IF \E i \in 1..(Len(p) - 1) : p[i] = "." /\ p[i + 1] = "."
    THEN WalkFrom(p, 1, <<>>)
    ELSE p

\* A relative path is resolved by the kernel against the working directory.
Resolve(cwd_, p) == Canon(IF Len(p) > 0 /\ p[1] = "/" THEN p ELSE PathJoin(cwd_, p))

\* lstat(2) on an absolute path: the directory entry itself.
LstatAt(fs, p) ==
    IF strbfrlst(p, "/") = trash_files_dir
    THEN (IF Basename(p) \in DOMAIN fs.files THEN fs.files[Basename(p)] ELSE NoFile)
    ELSE IF p \in DOMAIN fs.live THEN fs.live[p] ELSE NoFile

LstatAbs(fs, p) == LstatAt(fs, Canon(p))

lstat(fs, cwd_, p) == LstatAbs(fs, Resolve(cwd_, p))

\* stat(2) follows symbolic links: a dangling link is reported as missing.
Follow(f) == IF f.kind = "lnk" THEN NoFile ELSE f

stat(fs, cwd_, p) == Follow(lstat(fs, cwd_, p))

\* access(dir, W_OK | X_OK) == 0
\* Write access to a directory with the immutable flag is refused (EPERM).
AccessAt(fs, dir) ==
    \/ dir \in {trash_files_dir, trash_info_dir}
    \/ /\ dir \in DOMAIN fs.wx /\ fs.wx[dir]
       /\ ~(dir \in DOMAIN fs.live /\ fs.live[dir].immut)

access_wx(fs, dir) == AccessAt(fs, Canon(dir))

\* A function without the key k.
Without(f, k) == [x \in DOMAIN f \ {k} |-> f[x]]

\* A function with k bound to v (replacing an existing binding).
With(f, k, v) == [x \in DOMAIN f \cup {k} |-> IF x = k THEN v ELSE f[x]]

\* The path k is p, or lies below the directory p.
Below(p, k) ==
    \/ k = p
    \/ Len(k) > Len(p) + 1 /\ SubSeq(k, 1, Len(p) + 1) = p \o <<"/">>

\* unlink / rm of the directory entry at absolute path p, with what lies
\* below it when it is a directory.
UnlinkAt(fs, p) ==
    IF strbfrlst(p, "/") = trash_files_dir
    THEN [fs EXCEPT !.files = Without(fs.files, Basename(p))]
    ELSE [fs EXCEPT !.live = [k \in {x \in DOMAIN fs.live : ~Below(p, x)} |-> fs.live[k]]]

RemoveAt(fs, p) == UnlinkAt(fs, Canon(p))

\* rename(2) of the entry at absolute path p to trash_files_dir/name, taking
\* the place of what is there.
RenameToTrash(fs, p, name) ==
    [live |-> RemoveAt(fs, p).live,
     files |-> With(RemoveAt(fs, p).files, name, LstatAbs(fs, p)),
     info |-> fs.info, wx |-> fs.wx]

\* FS_IMMUTABLE_FL of the inode: 1 when set, 0 when not.
check_immutable_bit(f) == IF f.immut THEN 1 ELSE 0

\* The sidecar open_fwrite() has just created: an empty file.
EmptyInfo == [has_path |-> FALSE, path |-> <<>>, date |-> 0]

InfoName(name) == name \o TrashInfoExt

(***************************************************************************)
(* Directories: a directory of fs.live is a record of kind "dir", with rd  *)
(* telling whether opendir succeeds on it; fs.wx tells what access(dir,    *)
(* W_OK | X_OK) says of its permission bits.                               *)
(***************************************************************************)
\* readdir: the entries of a directory, "." and ".." left out.
DirEntries(fs, dir) == {k \in DOMAIN fs.live : strbfrlst(k, "/") = dir}

opendir(fs, dir) ==
    IF dir \in DOMAIN fs.live
    THEN fs.live[dir].kind = "dir" /\ fs.live[dir].rd
    ELSE dir \in DOMAIN fs.wx

\* count_dir(dir, NO_CPOP): the entries of dir, "." and ".." among them; -1
\* when the directory cannot be opened.
CountDir(fs, dir) ==
    IF opendir(fs, dir) THEN Cardinality(DirEntries(fs, dir)) + 2 ELSE -1

\* Lines 73-108: whether the walk sets recur_perm_error_flag.  The value
\* returned by the call on a subdirectory (line 104) is not looked at: a
\* subdirectory that cannot be opened sets no flag.
RECURSIVE RecurFlag(_, _)
RecurFlag(fs, dirname) ==
    /\ opendir(fs, dirname)
    /\ \E c \in DirEntries(fs, dirname) :
           /\ fs.live[c].kind = "dir"
           /\ ~access_wx(fs, c) \/ RecurFlag(fs, c)

\* Lines 64-116: FLAG is recur_perm_error_flag at the call; the walk sets it
\* (line 102) and never clears it, and the value returned is failure when it
\* is set once the directory is closed (lines 112-115).
recur_perm_check(fs, dirname, flag) ==
    IF ~opendir(fs, dirname) THEN [ret |-> EXIT_FAILURE, flag |-> flag]
    ELSE IF RecurFlag(fs, dirname) THEN [ret |-> EXIT_FAILURE, flag |-> 1]
    ELSE [ret |-> IF flag # 0 THEN EXIT_FAILURE ELSE EXIT_SUCCESS, flag |-> flag]

\* A preflight answer that leaves recur_perm_error_flag as it is.
WxAnswer(ret, flag) == [ret |-> ret, flag |-> flag]

\* The walk started on the flag as the last walk left it.
WxDirStale(fs, file, parent, flag) ==
    IF check_immutable_bit(LstatAbs(fs, file)) = 1 THEN WxAnswer(EXIT_FAILURE, flag)
    ELSE IF ~access_wx(fs, parent) THEN WxAnswer(EXIT_FAILURE, flag)
    ELSE IF CountDir(fs, parent) <= 2 THEN WxAnswer(EXIT_SUCCESS, flag)
    ELSE IF ~access_wx(fs, file) THEN WxAnswer(EXIT_FAILURE, flag)
    ELSE IF CountDir(fs, file) <= 2 THEN WxAnswer(EXIT_SUCCESS, flag)
    ELSE recur_perm_check(fs, file, flag)

\* Lines 155-204: case S_IFDIR of wx_parent_check.
\* recur_perm_error_flag is reset (line 181) before the walk is started.
WxDir(fs, file, parent, flag) ==
    IF check_immutable_bit(LstatAbs(fs, file)) = 1 THEN WxAnswer(EXIT_FAILURE, flag)
    ELSE IF ~access_wx(fs, parent) THEN WxAnswer(EXIT_FAILURE, flag)
    ELSE IF CountDir(fs, parent) <= 2 THEN WxAnswer(EXIT_SUCCESS, flag)
    ELSE IF ~access_wx(fs, file) THEN WxAnswer(EXIT_FAILURE, flag)
    ELSE IF CountDir(fs, file) <= 2 THEN WxAnswer(EXIT_SUCCESS, flag)
    ELSE recur_perm_check(fs, file, 0)

\* A preflight that lets every file through.
wx_parent_check_none(fs, file, flag) == WxAnswer(EXIT_SUCCESS, flag)

(***************************************************************************)
(* wx_parent_check: may FILE (absolute) be removed from its parent?        *)
(* The files of this world are regular files, symbolic links, directories. *)
(***************************************************************************)
wx_parent_check(fs, file, flag) ==
    LET attr == LstatAbs(fs, file)
        before == strbfrlst(file, "/")
        parent_is_root == file[1] = "/" /\ strcntchr(Tail(file), "/") = -1
        parent == IF before # NULL THEN before ELSE <<"/">>
    IN  IF attr = NoFile THEN WxAnswer(EXIT_FAILURE, flag)
        ELSE IF before = NULL /\ ~parent_is_root THEN WxAnswer(EXIT_FAILURE, flag)
        ELSE CASE attr.kind = "dir" -> WxDir(fs, file, parent, flag)
               [] attr.kind = "reg" ->
                    IF check_immutable_bit(attr) = 1 THEN WxAnswer(EXIT_FAILURE, flag)
                    ELSE IF access_wx(fs, parent) THEN WxAnswer(EXIT_SUCCESS, flag)
                    ELSE WxAnswer(EXIT_FAILURE, flag)
               [] attr.kind \in {"lnk", "sock", "fifo"} ->
                    IF access_wx(fs, parent) THEN WxAnswer(EXIT_SUCCESS, flag)
                    ELSE WxAnswer(EXIT_FAILURE, flag)
               [] OTHER -> WxAnswer(EXIT_FAILURE, flag)

(***************************************************************************)
(* trash_file                                                              *)
(* What the environment does to one call:                                  *)
(*   none            every system call succeeds                            *)
(*   rename_err      renameat fails, not with EXDEV                        *)
(*   xdev_mv_ok      renameat fails with EXDEV, mv(1) succeeds             *)
(*   xdev_mv_fail    renameat fails with EXDEV, mv(1) fails                *)
(*   xdev_mv_copied  renameat fails with EXDEV, mv(1) copies the file,     *)
(*                   cannot remove the source and exits non-zero           *)
(*   info_open_fail  open_fwrite fails, the rm that follows succeeds       *)
(*   info_rm_fail    open_fwrite fails, the rm that follows fails too      *)
(*   encode_fail     url_encode returns NULL                               *)
(* The result names the file-system after the call, the value returned,    *)
(* the name built for the trashed file (NULL when the call ended before    *)
(* that), and the fault the call met (none when it ended before it).       *)
(***************************************************************************)
TrashFaults ==
    {"none", "rename_err", "xdev_mv_ok", "xdev_mv_fail", "xdev_mv_copied",
     "info_open_fail", "info_rm_fail", "encode_fail"}

\* rm -rf of the file just moved; the value returned is rm's exit status.
del_trash_file_and_exit(fs, file_suffix, fault) ==
    IF fault = "info_rm_fail"
    THEN [ret |-> EXIT_FAILURE, fs |-> fs, entry |-> file_suffix, fault |-> fault]
    ELSE [ret |-> EXIT_SUCCESS,
          fs |-> [fs EXCEPT !.files = Without(fs.files, file_suffix)],
          entry |-> file_suffix, fault |-> fault]

\* An index one byte further into the name.
TildeIndexNext(filename_len, suffix_len) ==
    filename_len - ((filename_len + suffix_len + 11) - NAME_MAX)

\* Line 404: the index (from 0) of the byte of FILENAME that becomes the tilde.
TildeIndex(filename_len, suffix_len) ==
    filename_len - ((filename_len + suffix_len + 11) - NAME_MAX) - 1

\* The bytes kept of FILENAME: cut and closed with a tilde when too long.
TrimName(filename, suffix) ==
    LET filename_len == Len(filename)
        suffix_len == Len(suffix)
        size == (filename_len + suffix_len + 11) - NAME_MAX
    IN  IF size > 0
        THEN SubSeq(filename, 1, TildeIndex(filename_len, suffix_len)) \o <<"~">>
        ELSE filename

\* A call that ended before the move was tried.
TrashFail(fs, ret) == [ret |-> ret, fs |-> fs, entry |-> NULL, fault |-> "none"]

\* Lines 440-473: the sidecar of the file just moved, whose Path= is what
\* url_encode makes of the TMPFILE buffer.
TrashInfo(moved, tmpfile, file_suffix, t, fault) ==
    IF fault \in {"info_open_fail", "info_rm_fail"}
    THEN del_trash_file_and_exit(moved, file_suffix, fault)
    ELSE IF fault = "encode_fail"
    THEN [ret |-> EXIT_FAILURE,
          fs |-> [moved EXCEPT !.info = With(@, InfoName(file_suffix), EmptyInfo)],
          entry |-> file_suffix, fault |-> fault]
    ELSE [ret |-> EXIT_SUCCESS,
          fs |-> [moved EXCEPT !.info = With(@, InfoName(file_suffix),
                     [has_path |-> TRUE, path |-> url_encode(tmpfile), date |-> t])],
          entry |-> file_suffix, fault |-> fault]

\* A move whose failure is returned as success.
TrashMoveUnseen(fs, src, tmpfile, file_suffix, t, fault) ==
    IF LstatAbs(fs, src) = NoFile THEN TrashFail(fs, "ENOENT")
    ELSE IF fault \in {"rename_err", "xdev_mv_fail", "xdev_mv_copied"}
    THEN [ret |-> EXIT_SUCCESS, fs |-> fs, entry |-> NULL, fault |-> fault]
    ELSE TrashInfo(RenameToTrash(fs, src, file_suffix), tmpfile, file_suffix, t, fault)

\* Lines 412-438: renameat(file, dest), mv(1) when it fails with EXDEV.  SRC is
\* where the kernel finds FILE.  What is returned on failure is errno, which
\* renameat has set and no call made since sets to zero.
TrashMove(fs, src, tmpfile, file_suffix, t, fault) ==
    IF LstatAbs(fs, src) = NoFile THEN TrashFail(fs, "ENOENT")
    ELSE IF fault = "rename_err"
    THEN [ret |-> "EACCES", fs |-> fs, entry |-> NULL, fault |-> fault]
    ELSE IF fault = "xdev_mv_fail"
    THEN [ret |-> "EXDEV", fs |-> fs, entry |-> NULL, fault |-> fault]
    ELSE IF fault = "xdev_mv_copied"
    THEN [ret |-> "EXDEV",
          fs |-> [fs EXCEPT !.files = With(@, file_suffix, LstatAbs(fs, src))],
          entry |-> NULL, fault |-> fault]
    ELSE TrashInfo(RenameToTrash(fs, src, file_suffix), tmpfile, file_suffix, t, fault)

\* Lines 381-410: FILENAME points into the TMPFILE buffer, where the cut is
\* made; FILE is that same buffer unless the path given was relative.
TrashName(fs, cwd_, t, file, fault, dir, trimmed, suffix) ==
    TrashMove(fs,
              Resolve(cwd_, IF file[1] # "/" THEN file ELSE dir \o trimmed),
              dir \o trimmed,
              trimmed \o <<".">> \o suffix,
              t, fault)

\* Lines 375-387: the preflight, and the name after the last slash.
TrashTmpfile(fs, cwd_, t, file, fault, tmpfile, slash, flag) ==
    IF wx_parent_check(fs, tmpfile, flag).ret # EXIT_SUCCESS
    THEN TrashFail(fs, EXIT_FAILURE)
    ELSE IF slash = 0 \/ slash = Len(tmpfile) THEN TrashFail(fs, EXIT_FAILURE)
    ELSE TrashName(fs, cwd_, t, file, fault, SubSeq(tmpfile, 1, slash),
                   TrimName(SubSeq(tmpfile, slash + 1, Len(tmpfile)),
                            gen_date_suffix(t)),
                   gen_date_suffix(t))

\* Lines 363-373: a relative path is made absolute against the workspace.
TrashPath(fs, cwd_, t, file, fault, tmpfile, flag) ==
    TrashTmpfile(fs, cwd_, t, file, fault, tmpfile, strrchr(tmpfile, "/"), flag)

\* FLAG is recur_perm_error_flag when trash_file is called.
trash_file(fs, cwd_, t, file, fault, flag) ==
    IF lstat(fs, cwd_, file) = NoFile THEN TrashFail(fs, "ENOENT")
    ELSE TrashPath(fs, cwd_, t, file, fault,
                   IF file[1] # "/" THEN PathJoin(WsPath, file) ELSE file, flag)

\* recur_perm_error_flag when that call of trash_file is over.
TrashFlag(fs, cwd_, file, flag) ==
    IF lstat(fs, cwd_, file) = NoFile THEN flag
    ELSE wx_parent_check(fs, IF file[1] # "/" THEN PathJoin(WsPath, file) ELSE file,
                         flag).flag

(***************************************************************************)
(* check_trash_file: is DEQ_FILE something the trash command may take?     *)
(***************************************************************************)
StripSlash(p) ==
    IF Len(p) > 0 /\ p[Len(p)] = "/" THEN SubSeq(p, 1, Len(p) - 1) ELSE p

check_trash_file(fs, cwd_, deq_file) ==
    LET tmp_cmd == IF deq_file[1] = "/" THEN deq_file ELSE PathJoin(WsPath, deq_file)
        a == lstat(fs, cwd_, StripSlash(deq_file))
    IN  IF strncmp_eq(tmp_cmd, trash_dir, Len(tmp_cmd)) THEN EXIT_FAILURE
        ELSE IF strncmp_eq(tmp_cmd, trash_dir, Len(trash_dir)) THEN EXIT_FAILURE
        ELSE IF a = NoFile THEN EXIT_FAILURE
        ELSE IF a.kind \in {"blk", "chr"} THEN EXIT_FAILURE
        ELSE EXIT_SUCCESS

(***************************************************************************)
(* skip_files (sort.c): the scandir filter every trash listing uses        *)
(***************************************************************************)
\* regexec() == 0 for a pattern of literal characters: PAT occurs in NAME.
regexec(pat, name) ==
    \E i \in 1..Len(name) :
        i + Len(pat) - 1 <= Len(name) /\ SubSeq(name, i, i + Len(pat) - 1) = pat

skip_files(cf, d_name) ==
    IF d_name \in {<<".">>, <<".", ".">>} THEN 0
    ELSE IF cf.filter # NULL /\ regexec(cf.filter, d_name) THEN 0
    ELSE IF cf.show_hidden = 0 /\ d_name[1] = "." THEN 0
    ELSE 1

\* The names scandir(trash_files_dir, .., skip_files, ..) returns.
ScanTrash(fs, cf) == {n \in DOMAIN fs.files : skip_files(cf, n) = 1}

\* count_dir(trash_files_dir) - 2: every entry but "." and "..".
count_trashed_files(fs) == Cardinality(DOMAIN fs.files)

(***************************************************************************)
(* remove_file_from_trash                                                  *)
(*   faults: none, rm_fail (rm -rf exits non-zero and removes nothing)     *)
(***************************************************************************)
RmFaults == {"none", "rm_fail"}

remove_file_from_trash(fs, name, fault) ==
    LET err_file == name \notin DOMAIN fs.files \/ Follow(fs.files[name]) = NoFile
        err_info == InfoName(name) \notin DOMAIN fs.info
    IN  IF err_file \/ err_info THEN [ret |-> "ENOENT", fs |-> fs]
        ELSE IF fault = "rm_fail" THEN [ret |-> EXIT_FAILURE, fs |-> fs]
        ELSE [ret |-> EXIT_SUCCESS,
              fs |-> [fs EXCEPT !.files = Without(fs.files, name),
                                !.info = Without(fs.info, InfoName(name))]]

(***************************************************************************)
(* untrash_file                                                            *)
(*   faults: none, decode_fail, rename_err, xdev_mv_ok, xdev_mv_fail,      *)
(*           xdev_mv_copied (mv(1) copies the file to the other file       *)
(*           system, cannot remove the source and exits non-zero),         *)
(*           rm_info_fail (the rm -rf of the sidecar exits non-zero)       *)
(***************************************************************************)
UntrashFaults ==
    {"none", "decode_fail", "rename_err", "xdev_mv_ok", "xdev_mv_fail", "xdev_mv_copied",
     "rm_info_fail"}

\* A restore that moves the file back and leaves the sidecar behind.
UntrashMoveKeepInfo(fs, file, fault, dest) ==
    IF file \notin DOMAIN fs.files THEN [ret |-> "ENOENT", fs |-> fs]
    ELSE [ret |-> EXIT_SUCCESS,
          fs |-> [fs EXCEPT !.live = With(fs.live, dest, fs.files[file]),
                            !.files = Without(fs.files, file)]]

\* Lines 801-828: renameat(undel_file, url_decoded), mv(1) when it fails with
\* EXDEV, then rm -rf of the sidecar.  DEST is where the kernel finds
\* url_decoded.
UntrashMove(fs, file, fault, dest) ==
    IF file \notin DOMAIN fs.files THEN [ret |-> "ENOENT", fs |-> fs]
    ELSE IF fault = "rename_err" THEN [ret |-> "EACCES", fs |-> fs]
    ELSE IF fault = "xdev_mv_fail" THEN [ret |-> EXIT_FAILURE, fs |-> fs]
    ELSE IF fault = "xdev_mv_copied"
    THEN [ret |-> EXIT_FAILURE, fs |-> [fs EXCEPT !.live = With(@, dest, fs.files[file])]]
    ELSE [ret |-> IF fault = "rm_info_fail" THEN EXIT_FAILURE ELSE EXIT_SUCCESS,
          fs |-> [live |-> With(fs.live, dest, fs.files[file]),
                  files |-> Without(fs.files, file),
                  info |-> IF fault = "rm_info_fail" THEN fs.info
                           ELSE Without(fs.info, InfoName(file)),
                  wx |-> fs.wx]]

\* Lines 768-799: the parent directory of the original path must be there,
\* writable and searchable, and stat must find nothing at the path itself.
UntrashTo(fs, cwd_, file, fault, url_decoded, parent) ==
    IF parent = NULL
       /\ ~(url_decoded[1] = "/" /\ strcntchr(Tail(url_decoded), "/") = -1)
    THEN [ret |-> EXIT_FAILURE, fs |-> fs]
    ELSE IF ~access_wx(fs, IF parent # NULL THEN parent ELSE <<"/">>)
    THEN [ret |-> IF (IF parent # NULL THEN parent ELSE <<"/">>) \in DOMAIN fs.wx
                  THEN "EACCES" ELSE "ENOENT",
          fs |-> fs]
    ELSE IF stat(fs, cwd_, url_decoded) # NoFile THEN [ret |-> "EEXIST", fs |-> fs]
    ELSE UntrashMove(fs, file, fault, Resolve(cwd_, url_decoded))

\* Lines 757-770: the Path= value is decoded.
UntrashDecoded(fs, cwd_, file, fault, url_decoded) ==
    UntrashTo(fs, cwd_, file, fault, url_decoded, strbfrlst(url_decoded, "/"))

untrash_file(fs, cwd_, file, fault) ==
    IF InfoName(file) \notin DOMAIN fs.info THEN [ret |-> "ENOENT", fs |-> fs]
    ELSE IF ~fs.info[InfoName(file)].has_path THEN [ret |-> EXIT_FAILURE, fs |-> fs]
    ELSE IF fault = "decode_fail" THEN [ret |-> EXIT_FAILURE, fs |-> fs]
    ELSE UntrashDecoded(fs, cwd_, file, fault, url_decode(fs.info[InfoName(file)].path))

\* Lines 719-750: the item named by the message untrash_file prints while it
\* reads the sidecar; NULL when it prints none.  A sidecar that cannot be
\* opened is reported ("Info file for '%s' not found"); one without a Path=
\* value makes the function return with no message.
untrash_xerror(fs, file) ==
    IF InfoName(file) \notin DOMAIN fs.info THEN file ELSE NULL

(***************************************************************************)
(* trash_files_args: the loop over the arguments of a trash command        *)
(***************************************************************************)
\* Lines 1203-1207: an argument check_trash_file turned down.
TrashSkipped(acc, arg, pre) ==
    [acc EXCEPT !.exit_status = EXIT_FAILURE,
                !.items = Append(@, [arg |-> arg, checked |-> FALSE,
                              ret |-> EXIT_FAILURE, entry |-> NULL, fault |-> "none",
                              pre |-> pre, same |-> TRUE])]

\* Lines 1213-1223: what trash_file returned is counted.
TrashCounted(acc, arg, pre, r, flag) ==
    [fs |-> r.fs,
     flag |-> flag,
     exit_status |-> IF r.ret = EXIT_SUCCESS THEN acc.exit_status ELSE EXIT_FAILURE,
     trashed_files |-> acc.trashed_files + (IF r.ret = EXIT_SUCCESS THEN 1 ELSE 0),
     items |-> Append(acc.items, [arg |-> arg, checked |-> TRUE, ret |-> r.ret,
                          entry |-> r.entry, fault |-> r.fault, pre |-> pre,
                          same |-> (r.fs = acc.fs)])]

\* dequote_str: every backslash is dropped and the byte after it is kept.
\* NULL when the text is empty or the copy cannot be allocated.
RECURSIVE Unescape(_)
Unescape(text) ==
    IF text = <<>> THEN <<>>
    ELSE IF Head(text) = "\\"
    THEN (IF Len(text) = 1 THEN <<>> ELSE <<text[2]>> \o Unescape(SubSeq(text, 3, Len(text))))
    ELSE <<Head(text)>> \o Unescape(Tail(text))

dequote_str(text, fault) ==
    IF fault = "dequote_fail" \/ text = <<>> THEN NULL
    ELSE IF \A i \in 1..Len(text) : text[i] # "\\" THEN text
    ELSE Unescape(text)

\* Lines 1196-1200: an argument dequote_str could not copy is passed over,
\* and exit_status is left as it is.
TrashDequoteFailed(acc, arg) ==
    [acc EXCEPT !.items = Append(@, [arg |-> arg, checked |-> FALSE,
                              ret |-> EXIT_FAILURE, entry |-> NULL,
                              fault |-> "dequote_fail", pre |-> NoFile,
                              same |-> TRUE])]

\* Lines 1195-1226: one turn of the loop.
TrashArg(acc, cwd_, t, arg, deq_file, fault) ==
    IF deq_file = NULL THEN TrashDequoteFailed(acc, arg)
    ELSE IF check_trash_file(acc.fs, cwd_, deq_file) = EXIT_FAILURE
    THEN TrashSkipped(acc, arg, lstat(acc.fs, cwd_, StripSlash(deq_file)))
    ELSE TrashCounted(acc, arg, lstat(acc.fs, cwd_, StripSlash(deq_file)),
                      trash_file(acc.fs, cwd_, t, StripSlash(deq_file), fault, acc.flag),
                      TrashFlag(acc.fs, cwd_, StripSlash(deq_file), acc.flag))

RECURSIVE TrashLoop(_, _, _, _, _, _)
TrashLoop(acc, cwd_, t, args, faults, i) ==
    IF i > Len(args) THEN acc
    ELSE TrashLoop(TrashArg(acc, cwd_, t, args[i], dequote_str(args[i], faults[i]),
                            faults[i]),
                   cwd_, t, args, faults, i + 1)

trash_files_args(fs, cwd_, t, args, faults, flag) ==
    TrashLoop([fs |-> fs, flag |-> flag, exit_status |-> EXIT_SUCCESS,
               trashed_files |-> 0,
               items |-> <<>>], cwd_, t, args, faults, 1)

(***************************************************************************)
(* The scandir comparison routines (sort.c)                                *)
(***************************************************************************)
ByteOf(c) ==
    CASE c = "NUL" -> 0 [] c = " " -> 32 [] c = "%" -> 37 [] c = "*" -> 42
      [] c = "-" -> 45 [] c = "." -> 46 [] c = "/" -> 47
      [] c = "0" -> 48 [] c = "1" -> 49 [] c = "2" -> 50 [] c = "3" -> 51
      [] c = "4" -> 52 [] c = "5" -> 53 [] c = "6" -> 54 [] c = "7" -> 55
      [] c = "8" -> 56 [] c = "9" -> 57 [] c = "?" -> 63 [] c = "_" -> 95
      [] c = "a" -> 97 [] c = "b" -> 98 [] c = "e" -> 101 [] c = "f" -> 102
      [] c = "h" -> 104 [] c = "i" -> 105 [] c = "l" -> 108 [] c = "n" -> 110
      [] c = "o" -> 111 [] c = "q" -> 113 [] c = "r" -> 114 [] c = "s" -> 115
      [] c = "t" -> 116 [] c = "w" -> 119 [] c = "x" -> 120 [] c = "~" -> 126
      [] c = "A" -> 65 [] c = "B" -> 66 [] c = "G" -> 71 [] c = "Z" -> 90
      [] c = "c" -> 99 [] c = "d" -> 100 [] c = "g" -> 103 [] c = "m" -> 109
      [] c = "z" -> 122 [] c = "p" -> 112 [] c = "u" -> 117 [] c = "v" -> 118
      [] c = "0x80" -> 128 [] c = "0xA9" -> 169 [] c = "0xC3" -> 195
      [] c = "0xE2" -> 226

\* tolower(3) on the bytes of this world: its upper-case letters are A, B, G
\* and Z.
ToLower(c) ==
    CASE c = "A" -> "a" [] c = "B" -> "b" [] c = "G" -> "g" [] c = "Z" -> "z"
      [] OTHER -> c

RECURSIVE StrCmpFrom(_, _, _)
StrCmpFrom(a, b, i) ==
    IF CharAt(a, i) # CharAt(b, i) THEN ByteOf(CharAt(a, i)) - ByteOf(CharAt(b, i))
    ELSE IF i > Len(a) THEN 0
    ELSE StrCmpFrom(a, b, i + 1)

strcmp(a, b) == StrCmpFrom(a, b, 1)

RECURSIVE StrCaseCmpFrom(_, _, _)
StrCaseCmpFrom(a, b, i) ==
    IF ToLower(CharAt(a, i)) # ToLower(CharAt(b, i))
    THEN ByteOf(ToLower(CharAt(a, i))) - ByteOf(ToLower(CharAt(b, i)))
    ELSE IF i > Len(a) THEN 0
    ELSE StrCaseCmpFrom(a, b, i + 1)

strcasecmp(a, b) == StrCaseCmpFrom(a, b, 1)

\* A reversal that leaves the result as it is.
ReversedNot(cf, ret) == ret

\* return (ret - (ret * 2)) when conf.sort_reverse is set
Reversed(cf, ret) == IF cf.sort_reverse = 0 THEN ret ELSE ret - (ret * 2)

\* The byte c read as a char: below zero from 128 on where char is a signed
\* type.
CharOf(c, char_signed) ==
    IF char_signed /\ ByteOf(c) >= 128 THEN ByteOf(c) - 256 ELSE ByteOf(c)

\* Lines 318-337.  d_name[0] is a char; strcmp compares unsigned bytes.
xalphasort_char(cf, a, b, char_signed) ==
    Reversed(cf,
        IF CharOf(CharAt(a, 1), char_signed) > CharOf(CharAt(b, 1), char_signed) THEN 1
        ELSE IF CharOf(CharAt(a, 1), char_signed) < CharOf(CharAt(b, 1), char_signed)
        THEN -1
        ELSE strcmp(a, b))

\* Names of bytes below 128 compare the same whatever char is.
xalphasort(cf, a, b) == xalphasort_char(cf, a, b, TRUE)

SkipDot(a) == IF CharAt(a, 1) = "." THEN Tail(a) ELSE a

alphasort_insensitive(cf, a, b) == Reversed(cf, strcasecmp(SkipDot(a), SkipDot(b)))

(***************************************************************************)
(* The comparison of two entries of a listing (entrycmp and what it calls) *)
(*   entry: [name, dir, size, time, inode, uid, gid]                       *)
(***************************************************************************)
IS_DIGIT(c) == ByteOf(c) \in 48..57

IS_ALPHA(c) == ByteOf(c) \in 97..122

\* TOUPPER on a byte.
TOUPPER(n) == IF n \in 97..122 THEN n - 32 ELSE n

\* Lines 86-92: is *s a byte the loop of skip_name_prefixes stops at?
NameStart(c) == IS_DIGIT(c) \/ IS_ALPHA(c) \/ ByteOf(c) \in 65..90

\* The name from its first alphanumeric byte on; the whole name when it has
\* none.
skip_name_prefixes(name) ==
    LET I == {i \in 1..Len(name) : NameStart(name[i])}
    IN  IF I = {} THEN name
        ELSE SubSeq(name, CHOOSE i \in I : \A j \in I : i <= j, Len(name))

\* strtoll(s, &p, 10) of a string of this world: the value of the digits s
\* begins with (none of them long enough to leave the range of long long).
RECURSIVE StrToLL(_, _, _)
StrToLL(s, i, acc) ==
    IF i > Len(s) \/ ~IS_DIGIT(CharAt(s, i)) THEN acc
    ELSE StrToLL(s, i + 1, acc * 10 + (ByteOf(s[i]) - 48))

strtoll(s) == StrToLL(s, 1, 0)

\* strcoll(3) in the C locale is strcmp(3).
strcoll(a, b) == strcmp(a, b)

\* Lines 100-115.  With HAVE_STRCOLL the routine hands *s2 to strcoll twice;
\* without it the first bytes are subtracted as chars, then strcmp decides.
compare_strings(have_strcoll, s1, s2, char_signed) ==
    IF have_strcoll THEN strcoll(s2, s2)
    ELSE IF CharOf(CharAt(s1, 1), char_signed) # CharOf(CharAt(s2, 1), char_signed)
    THEN CharOf(CharAt(s1, 1), char_signed) - CharOf(CharAt(s2, 1), char_signed)
    ELSE strcmp(s1, s2)

\* The locale setlocale(3) left: that of the configuration when it names
\* one, the C locale otherwise.
LocaleOf(cf) == IF "locale" \in DOMAIN cf THEN cf.locale ELSE "C"

\* The weight of a byte at the first level of the collation of a UTF-8
\* locale such as en_US: punctuation and symbols, then digits, then letters
\* in the order of the alphabet whatever their case or accent.  0xC3 0xA9 is
\* the letter e with an acute accent, whose second byte has no weight (0).
CollWeight(c) ==
    IF ByteOf(c) \in 48..57 THEN 100 + ByteOf(c) - 48
    ELSE IF ByteOf(c) \in 97..122 THEN 200 + ByteOf(c) - 97
    ELSE IF ByteOf(c) \in 65..90 THEN 200 + ByteOf(c) - 65
    ELSE IF c = "0xC3" THEN 204
    ELSE IF c = "0xA9" THEN 0
    ELSE IF ByteOf(c) < 48 THEN ByteOf(c)
    ELSE 48 + (ByteOf(c) - 48) \div 5

\* The weight at the next level: plain small letters, then accents, then
\* capitals.
CollCase(c) ==
    IF ByteOf(c) \in 65..90 THEN 2 ELSE IF c = "0xC3" THEN 1 ELSE 0

\* The weights of the bytes of s that have one.
RECURSIVE CollKey(_, _)
CollKey(s, i) ==
    IF i > Len(s) THEN <<>>
    ELSE IF CollWeight(s[i]) = 0 THEN CollKey(s, i + 1)
    ELSE <<CollWeight(s[i])>> \o CollKey(s, i + 1)

RECURSIVE CollCases(_, _)
CollCases(s, i) ==
    IF i > Len(s) THEN <<>>
    ELSE IF CollWeight(s[i]) = 0 THEN CollCases(s, i + 1)
    ELSE <<CollCase(s[i])>> \o CollCases(s, i + 1)

\* Two sequences of weights compared from the front; the shorter first.
RECURSIVE WeightsCmp(_, _, _)
WeightsCmp(p, q, i) ==
    IF i > Len(p) /\ i > Len(q) THEN 0
    ELSE IF i > Len(p) THEN -1
    ELSE IF i > Len(q) THEN 1
    ELSE IF p[i] # q[i] THEN p[i] - q[i]
    ELSE WeightsCmp(p, q, i + 1)

\* strcoll(3) in the locale LOC: the bytes in the C locale, the levels of
\* weights in a UTF-8 locale.
Collate(loc, a, b) ==
    IF loc = "C" THEN strcoll(a, b)
    ELSE IF WeightsCmp(CollKey(a, 1), CollKey(b, 1), 1) # 0
    THEN WeightsCmp(CollKey(a, 1), CollKey(b, 1), 1)
    ELSE IF WeightsCmp(CollCases(a, 1), CollCases(b, 1), 1) # 0
    THEN WeightsCmp(CollCases(a, 1), CollCases(b, 1), 1)
    ELSE strcmp(a, b)

\* (*s & 0xc0) == 0xc0: the first byte of a character of several bytes.
Utf8Lead(c) == ByteOf(c) >= 192

\* Lines 134-154: the first bytes, AC and BC, unless one of the names begins
\* with a character of several bytes; then the strings.
NameBytes(cf, s1, s2, ac, bc) ==
    IF ~Utf8Lead(CharAt(s1, 1)) /\ ~Utf8Lead(CharAt(s2, 1)) /\ bc > ac THEN -1
    ELSE IF ~Utf8Lead(CharAt(s1, 1)) /\ ~Utf8Lead(CharAt(s2, 1)) /\ bc < ac THEN 1
    ELSE IF cf.case_sens_list = 0 \/ Utf8Lead(CharAt(s1, 1)) \/ Utf8Lead(CharAt(s2, 1))
    THEN Collate(LocaleOf(cf), s1, s2)
    ELSE strcmp(s1, s2)

\* Lines 123-149, S1 and S2 being what skip_name_prefixes left.
NameSkipped(cf, s1, s2) ==
    IF IS_DIGIT(CharAt(s1, 1)) /\ IS_DIGIT(CharAt(s2, 1)) /\ strtoll(s2) > strtoll(s1)
    THEN -1
    ELSE IF IS_DIGIT(CharAt(s1, 1)) /\ IS_DIGIT(CharAt(s2, 1))
            /\ strtoll(s2) < strtoll(s1)
    THEN 1
    ELSE NameBytes(cf, s1, s2,
                   IF cf.case_sens_list = 0 THEN TOUPPER(CharOf(CharAt(s1, 1), TRUE))
                   ELSE CharOf(CharAt(s1, 1), TRUE),
                   IF cf.case_sens_list = 0 THEN TOUPPER(CharOf(CharAt(s2, 1), TRUE))
                   ELSE CharOf(CharAt(s2, 1), TRUE))

namecmp(cf, s1, s2) == NameSkipped(cf, skip_name_prefixes(s1), skip_name_prefixes(s2))

\* sort_by_size, sort_by_time, sort_by_inode, sort_by_owner, sort_by_group
Cmp3(a, b) == IF a > b THEN 1 ELSE IF a < b THEN -1 ELSE 0

sort_by_size(pa, pb) == Cmp3(pa.size, pb.size)

sort_by_time(a, b) == Cmp3(a, b)

sort_by_inode(a, b) == Cmp3(a, b)

sort_by_owner(a, b) == Cmp3(a, b)

sort_by_group(a, b) == Cmp3(a, b)

\* Lines 184-190: a name has an extension when its last dot is not its
\* first byte.
HasExt(n) == strrchr(n, ".") > 1

ExtOf(n) == SubSeq(n, strrchr(n, ".") + 1, Len(n))

\* An extension sort that sees no extension.
sort_by_extension_none(n1, n2) == 0

sort_by_extension(n1, n2) ==
    IF HasExt(n1) \/ HasExt(n2)
    THEN (IF ~HasExt(n1) THEN -1
          ELSE IF ~HasExt(n2) THEN 1
          ELSE strcasecmp(ExtOf(n1), ExtOf(n2)))
    ELSE 0

\* A comparison of kinds that tells no directory from a file.
sort_dirs_none(a, b) == 0

sort_dirs(a, b) == IF b # a THEN (IF b # 0 THEN 1 ELSE -1) ELSE 0

\* Version order: runs of digits count as numbers (the names of this world
\* have no run beginning with a zero).
RECURSIVE VersFrom(_, _, _)
VersFrom(a, b, i) ==
    IF IS_DIGIT(CharAt(a, i)) /\ IS_DIGIT(CharAt(b, i))
       /\ strtoll(SubSeq(a, i, Len(a))) # strtoll(SubSeq(b, i, Len(b)))
    THEN Cmp3(strtoll(SubSeq(a, i, Len(a))), strtoll(SubSeq(b, i, Len(b))))
    ELSE IF CharAt(a, i) # CharAt(b, i)
    THEN ByteOf(CharAt(a, i)) - ByteOf(CharAt(b, i))
    ELSE IF i > Len(a) THEN 0
    ELSE VersFrom(a, b, i + 1)

xstrverscmp(a, b) == VersFrom(a, b, 1)

\* Lines 289-304: the comparison the sort key asks for.
KeyCompare(st, pa, pb) ==
    CASE st = "STSIZE" -> sort_by_size(pa, pb)
      [] st \in {"SATIME", "SBTIME", "SCTIME", "SMTIME"} -> sort_by_time(pa.time, pb.time)
      [] st = "SVER" -> xstrverscmp(pa.name, pb.name)
      [] st = "SEXT" -> sort_by_extension(pa.name, pb.name)
      [] st = "SINO" -> sort_by_inode(pa.inode, pb.inode)
      [] st = "SOWN" -> sort_by_owner(pa.uid, pb.uid)
      [] st = "SGRP" -> sort_by_group(pa.gid, pb.gid)
      [] OTHER -> 0

\* Lines 306-311: the name decides a tie, and sort_reverse turns the result.
EntryKeyed(cf, pa, pb, ret) ==
    Reversed(cf, IF ret = 0 THEN namecmp(cf, pa.name, pb.name) ELSE ret)

\* The key of the configuration, whatever the mode.
SortKeyAsSet(cf) == cf.sort

\* Lines 289-290: light mode has no owner or group to compare.
SortKey(cf) ==
    IF cf.light_mode = 1 /\ cf.sort \in {"SOWN", "SGRP"} THEN "SNAME" ELSE cf.sort

\* Lines 283-287.
EntryDirs(cf, pa, pb, ret) ==
    IF cf.list_dirs_first = 1 /\ ret # 0 THEN ret
    ELSE EntryKeyed(cf, pa, pb, KeyCompare(SortKey(cf), pa, pb))

entrycmp(cf, a, b) == EntryDirs(cf, a, b, sort_dirs(a.dir, b.dir))

\* The words print_owner_group_sort prints.
print_owner_group_sort(cf, mode) ==
    <<IF mode = "SOWN" THEN "owner" ELSE "group">>
    \o (IF cf.light_mode = 1 THEN <<"(not available: using 'name')">> ELSE <<>>)
    \o <<IF cf.sort_reverse = 1 THEN "[rev]" ELSE "">>

\* The words print_sort_method prints (btime as on a system that has it).
print_sort_method(cf) ==
    IF cf.sort = "SNONE" THEN <<"none">>
    ELSE IF cf.sort \in {"SOWN", "SGRP"} THEN print_owner_group_sort(cf, cf.sort)
    ELSE <<CASE cf.sort = "SNAME" -> "name"
             [] cf.sort = "STSIZE" -> "size"
             [] cf.sort = "SATIME" -> "atime"
             [] cf.sort = "SBTIME" -> "btime"
             [] cf.sort = "SCTIME" -> "ctime"
             [] cf.sort = "SMTIME" -> "mtime"
             [] cf.sort = "SVER" -> "version"
             [] cf.sort = "SEXT" -> "extension"
             [] cf.sort = "SINO" -> "inode"
             [] OTHER -> "unknown sorting order",
           IF cf.sort_reverse = 1 THEN "[rev]" ELSE "">>

\* alphasort(3) is strcoll(3): byte order in the C locale.
alphasort(cf, a, b) == strcmp(a, b)

\* The comparison the listings of the trash choose from the configuration.
ListCompare(cf, a, b) ==
    IF cf.unicode = 1 THEN alphasort(cf, a, b)
    ELSE IF cf.case_sens_list = 1 THEN xalphasort(cf, a, b)
    ELSE alphasort_insensitive(cf, a, b)

\* Every order of the names of S.
Orders(S) ==
    {q \in [1..Cardinality(S) -> S] : \A i, j \in 1..Cardinality(S) : q[i] = q[j] => i = j}

\* scandir(trash_files_dir, &trash_files, skip_files, compar) for the listings:
\* the names skip_files keeps, in an order qsort may produce.
ScanListings(fs, cf) ==
    {q \in Orders(ScanTrash(fs, cf)) :
        \A i, j \in 1..Len(q) : i < j => ListCompare(cf, q[i], q[j]) <= 0}

\* The same with xalphasort, as trash_clear calls it.
ScanClear(fs, cf) ==
    {q \in Orders(ScanTrash(fs, cf)) :
        \A i, j \in 1..Len(q) : i < j => xalphasort(cf, q[i], q[j]) <= 0}

(***************************************************************************)
(* trash_clear                                                             *)
(*   rmfail: the entries for which rm -rf exits non-zero (removing nothing)*)
(* The result names the file system and working directory afterwards, the  *)
(* value returned, the number of entries scandir gave, and whether the     *)
(* "Trash can emptied" message was printed.                                *)
(***************************************************************************)
\* Lines 283-313: rm -rf of both halves of one entry.
ClearOne(acc, name, failed) ==
    [fs |-> IF failed THEN acc.fs
            ELSE [acc.fs EXCEPT !.files = Without(@, name),
                                !.info = Without(@, InfoName(name))],
     ret |-> IF failed THEN EXIT_FAILURE ELSE EXIT_SUCCESS,
     exit_status |-> IF failed THEN EXIT_FAILURE ELSE acc.exit_status]

RECURSIVE ClearLoop(_, _, _, _)
ClearLoop(acc, trash_files, rmfail, i) ==
    IF i > Len(trash_files) THEN acc
    ELSE ClearLoop(ClearOne(acc, trash_files[i], trash_files[i] \in rmfail),
                   trash_files, rmfail, i + 1)

\* Lines 315-329: back to the workspace; the message looks at the last ret.
ClearDone(r, files_n) ==
    [fs |-> r.fs, cwd |-> WsPath, ret |-> r.exit_status, files_n |-> files_n,
     emptied_msg |-> (r.ret = EXIT_SUCCESS)]

\* Lines 274-279: nothing listed, and the function returns where it stands.
ClearListed(fs, trash_files, rmfail) ==
    IF Len(trash_files) = 0
    THEN [fs |-> fs, cwd |-> trash_files_dir, ret |-> EXIT_SUCCESS, files_n |-> 0,
          emptied_msg |-> FALSE]
    ELSE ClearDone(ClearLoop([fs |-> fs, ret |-> EXIT_SUCCESS,
                              exit_status |-> EXIT_SUCCESS], trash_files, rmfail, 1),
                   Len(trash_files))

\* xalphasort returns 0 only for equal names, so scandir's order is the one
\* order of ScanClear.
trash_clear(fs, cf, rmfail) ==
    ClearListed(fs, CHOOSE q \in ScanClear(fs, cf) : TRUE, rmfail)

(***************************************************************************)
(* list_trashed_files                                                      *)
(*   scan_err: scandir returns -1                                          *)
(***************************************************************************)
list_trashed_files(trash_files, scan_err) ==
    IF scan_err THEN [cwd |-> trash_files_dir, ret |-> EXIT_FAILURE, printed |-> <<>>]
    ELSE IF Len(trash_files) <= 0
    THEN [cwd |-> trash_files_dir, ret |-> "-1", printed |-> <<>>]
    ELSE [cwd |-> WsPath, ret |-> EXIT_SUCCESS, printed |-> trash_files]

(***************************************************************************)
(* remove_from_trash_params: trash del NAME...                             *)
(*   rmfail: the entries for which rm -rf exits non-zero                   *)
(***************************************************************************)
RmFault(rmfail, name) == IF name \in rmfail THEN "rm_fail" ELSE "none"

\* Line 512: return trash_clear();
RemoveCleared(acc, c) ==
    [acc EXCEPT !.fs = c.fs, !.cwd = c.cwd, !.exit_status = c.ret, !.cleared = TRUE]

\* Lines 518-521: what remove_file_from_trash returned is counted.
RemoveCounted(acc, name, r) ==
    [acc EXCEPT !.fs = r.fs,
                !.exit_status = IF r.ret # EXIT_SUCCESS THEN EXIT_FAILURE ELSE @,
                !.rem_files = IF r.ret # EXIT_SUCCESS THEN @ ELSE @ + 1,
                !.items = Append(@, [name |-> name, ret |-> r.ret])]

RECURSIVE RemoveParamsLoop(_, _, _, _, _)
RemoveParamsLoop(acc, cf, args, rmfail, i) ==
    IF i > Len(args) THEN acc
    ELSE IF args[i] = <<"*">> THEN RemoveCleared(acc, trash_clear(acc.fs, cf, rmfail))
    ELSE RemoveParamsLoop(
            RemoveCounted(acc, args[i],
                remove_file_from_trash(acc.fs, args[i], RmFault(rmfail, args[i]))),
            cf, args, rmfail, i + 1)

remove_from_trash_params(fs, cwd_, cf, args, rmfail) ==
    RemoveParamsLoop([fs |-> fs, cwd |-> cwd_, exit_status |-> EXIT_SUCCESS,
                      rem_files |-> 0, items |-> <<>>, cleared |-> FALSE],
                     cf, args, rmfail, 1)

(***************************************************************************)
(* remove_from_trash without parameters: list, read a line, remove         *)
(*   trash_files: the listing scandir gave; scan_err: scandir returned -1  *)
(*   rm_elements: the words of the line read                               *)
(***************************************************************************)
is_number(s) == Len(s) > 0 /\ \A i \in 1..Len(s) : ByteOf(s[i]) \in 48..57

RECURSIVE atoi(_)
atoi(s) ==
    IF Len(s) = 0 \/ ByteOf(s[1]) \notin 48..57 THEN 0
    ELSE IF Len(s) = 1 THEN ByteOf(s[1]) - 48
    ELSE LET rest == SubSeq(s, 1, Len(s) - 1)
         IN  IF is_number(s) THEN atoi(rest) * 10 + (ByteOf(s[Len(s)]) - 48)
             ELSE atoi(rest)

\* Lines 626-634 and 681-688: one selected entry; NULL stands for an invalid
\* ELN, which is reported and skipped.
RemoveListed(acc, name, r) ==
    [fs |-> r.fs,
     exit_status |-> IF r.ret # EXIT_SUCCESS THEN EXIT_FAILURE ELSE acc.exit_status,
     removed_files |-> IF r.ret # EXIT_SUCCESS THEN acc.removed_files
                       ELSE acc.removed_files + 1,
     items |-> Append(acc.items, [name |-> name, ret |-> r.ret])]

RECURSIVE RemoveListLoop(_, _, _, _)
RemoveListLoop(acc, names, rmfail, i) ==
    IF i > Len(names) THEN acc
    ELSE RemoveListLoop(
            RemoveListed(acc, names[i],
                IF names[i] = NULL THEN [ret |-> "EINVAL", fs |-> acc.fs]
                ELSE remove_file_from_trash(acc.fs, names[i],
                                            RmFault(rmfail, names[i]))),
            names, rmfail, i + 1)

\* The entry a number selects: trash_files[rm_num - 1], NULL for an invalid ELN
\* (rm_num <= 0 || rm_num > files_n).
Selected(trash_files, num) ==
    IF num <= 0 \/ num > Len(trash_files) THEN NULL ELSE trash_files[num]

\* A return that removed nothing.
RemoveQuiet(fs, cwd_, ret, path) ==
    [fs |-> fs, removed_files |-> 0, items |-> <<>>, cwd |-> cwd_, ret |-> ret,
     path |-> path]

\* A return after a removal loop.
RemoveDone(r, path) ==
    [fs |-> r.fs, removed_files |-> r.removed_files, items |-> r.items,
     cwd |-> WsPath, ret |-> r.exit_status, path |-> path]

RemoveStart(fs) ==
    [fs |-> fs, exit_status |-> EXIT_SUCCESS, removed_files |-> 0, items |-> <<>>]

\* The first word that is "q", "*" or not a number; 0 when all are numbers.
FirstWord(rm_elements) ==
    IF \A i \in 1..Len(rm_elements) :
           rm_elements[i] \notin {<<"q">>, <<"*">>} /\ is_number(rm_elements[i])
    THEN 0
    ELSE CHOOSE i \in 1..Len(rm_elements) :
             /\ rm_elements[i] \in {<<"q">>, <<"*">>} \/ ~is_number(rm_elements[i])
             /\ \A j \in 1..(i - 1) :
                    rm_elements[j] \notin {<<"q">>, <<"*">>} /\ is_number(rm_elements[j])

\* Lines 600-705: the words of the line are looked at, then the numbers.
RemoveSelected(fs, trash_files, rm_elements, rmfail, first) ==
    IF first # 0 /\ rm_elements[first] = <<"q">>
    THEN RemoveQuiet(fs, WsPath, EXIT_SUCCESS, "quit")
    ELSE IF first # 0 /\ rm_elements[first] = <<"*">>
    THEN RemoveDone(RemoveListLoop(RemoveStart(fs), trash_files, rmfail, 1), "all")
    ELSE IF first # 0
    THEN RemoveQuiet(fs, WsPath, EXIT_FAILURE, "invalid")
    ELSE RemoveDone(RemoveListLoop(RemoveStart(fs),
                        [i \in 1..Len(rm_elements) |->
                            Selected(trash_files, atoi(rm_elements[i]))],
                        rmfail, 1),
                    "numbers")

remove_from_trash(fs, trash_files, scan_err, rm_elements, rmfail) ==
    IF scan_err THEN RemoveQuiet(fs, trash_files_dir, EXIT_FAILURE, "scandir")
    ELSE IF Len(trash_files) = 0 THEN RemoveQuiet(fs, WsPath, EXIT_SUCCESS, "empty")
    ELSE IF Len(rm_elements) = 0 THEN RemoveQuiet(fs, WsPath, EXIT_FAILURE, "noinput")
    ELSE RemoveSelected(fs, trash_files, rm_elements, rmfail, FirstWord(rm_elements))

(***************************************************************************)
(* untrash_files, untrash_all and the prompt of untrash_function           *)
(*   faults: the fault met by untrash_file, per entry name                 *)
(***************************************************************************)
FaultOf(faults, name) == IF name \in DOMAIN faults THEN faults[name] ELSE "none"

\* The decoded Path= value of the sidecar of NAME, NULL when there is none.
OrigPath(fs, name) ==
    IF InfoName(name) \in DOMAIN fs.info /\ fs.info[InfoName(name)].has_path
    THEN url_decode(fs.info[InfoName(name)].path)
    ELSE NULL

\* What untrash_file returned for NAME is counted; DEST is the decoded Path=
\* of its sidecar before the call.
UntrashCounted(acc, cwd_, name, fault, r, dest) ==
    [fs |-> r.fs,
     exit_status |-> IF r.ret # EXIT_SUCCESS THEN EXIT_FAILURE ELSE acc.exit_status,
     untrashed_files |-> IF r.ret # EXIT_SUCCESS THEN acc.untrashed_files
                         ELSE acc.untrashed_files + 1,
     items |-> Append(acc.items,
                  [name |-> name, ret |-> r.ret, fault |-> fault,
                   paired |-> name \in DOMAIN acc.fs.files
                              /\ InfoName(name) \in DOMAIN acc.fs.info,
                   dest |-> dest,
                   destfile |-> IF dest = NULL THEN NoFile
                                ELSE lstat(acc.fs, cwd_, dest)])]

RECURSIVE UntrashLoop(_, _, _, _, _)
UntrashLoop(acc, cwd_, names, faults, i) ==
    IF i > Len(names) THEN acc
    ELSE IF names[i] = NULL THEN UntrashLoop(acc, cwd_, names, faults, i + 1)
    ELSE UntrashLoop(
            UntrashCounted(acc, cwd_, names[i], FaultOf(faults, names[i]),
                untrash_file(acc.fs, cwd_, names[i], FaultOf(faults, names[i])),
                OrigPath(acc.fs, names[i])),
            cwd_, names, faults, i + 1)

UntrashStart(fs, exit_status) ==
    [fs |-> fs, exit_status |-> exit_status, untrashed_files |-> 0, items |-> <<>>]

\* Lines 878-888.  total: the "%zu total trashed file(s)" figure, -1 when it is
\* not printed.
UntrashFilesDone(r, cwd_) ==
    [fs |-> r.fs, cwd |-> cwd_, ret |-> r.exit_status, items |-> r.items,
     untrashed_files |-> r.untrashed_files,
     total |-> IF r.exit_status = EXIT_SUCCESS THEN count_trashed_files(r.fs) ELSE -1]

untrash_files(fs, cwd_, args, faults) ==
    UntrashFilesDone(UntrashLoop(UntrashStart(fs, EXIT_SUCCESS), cwd_, args, faults, 1),
                     cwd_)

\* Lines 845-855: back to the workspace; "0 trashed files" is printed.
UntrashAllDone(r) ==
    [fs |-> r.fs, cwd |-> WsPath, ret |-> r.exit_status, items |-> r.items,
     total |-> 0, path |-> "all"]

\* Runs with the working directory still at trash_files_dir.
untrash_all(fs, trash_files, faults) ==
    UntrashAllDone(UntrashLoop(UntrashStart(fs, EXIT_SUCCESS), trash_files_dir,
                               trash_files, faults, 1))

\* Lines 982-988: "*" untrashes every listed entry.
UndelStar(acc, r) ==
    [fs |-> r.fs, exit_status |-> r.exit_status, free_and_return |-> 1,
     items |-> acc.items \o r.items]

\* Lines 979-994: the first pass over the words of the line; every word is
\* looked at.
RECURSIVE UndelWords(_, _, _, _, _)
UndelWords(acc, trash_files, undel_elements, faults, i) ==
    IF i > Len(undel_elements) THEN acc
    ELSE UndelWords(
            IF undel_elements[i] = <<"q">> THEN [acc EXCEPT !.free_and_return = 1]
            ELSE IF undel_elements[i] = <<"*">>
            THEN UndelStar(acc, UntrashLoop(UntrashStart(acc.fs, acc.exit_status),
                                            WsPath, trash_files, faults, 1))
            ELSE IF ~is_number(undel_elements[i])
            THEN [acc EXCEPT !.exit_status = EXIT_FAILURE, !.free_and_return = 1]
            ELSE acc,
            trash_files, undel_elements, faults, i + 1)

\* count_dir(trash_files_dir) also counts "." and "..".
count_dir(fs) == Cardinality(DOMAIN fs.files) + 2

\* A return of untrash_function from its prompt.
UndelReturn(fs, ret, tn, items, trash_files, path) ==
    [fs |-> fs, cwd |-> WsPath, ret |-> ret, trash_n |-> tn, items |-> items,
     listing |-> trash_files, path |-> path]

\* Lines 1037-1046: the outcomes O of the nested call change what is left, not
\* the value returned.
UndelNested(r, trash_files, O) ==
    {[fs |-> o.fs, cwd |-> o.cwd, ret |-> r.exit_status, trash_n |-> o.trash_n,
      items |-> r.items \o o.items, listing |-> trash_files, path |-> "numbers"] :
        o \in O}

\* One call of untrash_function at the prompt.  It calls itself after a line
\* of numbers while the trash is not empty; LINES are the lines the user
\* types, who answers "q" once they are used up.  The result is the set of
\* outcomes over the orders scandir may give.
RECURSIVE UndelPrompt(_, _, _, _, _, _)
\* Lines 1013-1046: the numbers of the line, R being what the loop over them
\* gave.
UndelNumbers(r, cf, lines, faults, k, trash_files) ==
    IF count_dir(r.fs) <= 2
    THEN {UndelReturn(r.fs, r.exit_status, 0, r.items, trash_files, "numbers")}
    ELSE UndelNested(r, trash_files,
                     UndelPrompt(r.fs, count_dir(r.fs), cf, lines, faults, k + 1))

\* Lines 996-1011: W is what the first pass gave.
UndelAnswered(fs, tn, cf, lines, faults, k, trash_files, undel_elements, w) ==
    IF w.free_and_return = 1
    THEN {UndelReturn(w.fs, w.exit_status, tn, w.items, trash_files, "words")}
    ELSE UndelNumbers(
            UntrashLoop(UntrashStart(fs, EXIT_SUCCESS), WsPath,
                        [i \in 1..Len(undel_elements) |->
                            Selected(trash_files, atoi(undel_elements[i]))],
                        faults, 1),
            cf, lines, faults, k, trash_files)

\* Lines 916-974: the listing, and the line read.
UndelListed(fs, tn, cf, lines, faults, k, trash_files, undel_elements) ==
    IF Len(trash_files) = 0
    THEN {UndelReturn(fs, EXIT_SUCCESS, tn, <<>>, trash_files, "empty")}
    ELSE IF Len(undel_elements) = 0
    THEN {UndelReturn(fs, EXIT_FAILURE, tn, <<>>, trash_files, "noinput")}
    ELSE UndelAnswered(fs, tn, cf, lines, faults, k, trash_files, undel_elements,
             UndelWords([fs |-> fs, exit_status |-> EXIT_SUCCESS,
                         free_and_return |-> 0, items |-> <<>>],
                        trash_files, undel_elements, faults, 1))

UndelPrompt(fs, tn, cf, lines, faults, k) ==
    UNION {UndelListed(fs, tn, cf, lines, faults, k, q,
                       IF k <= Len(lines) THEN lines[k] ELSE << <<"q">> >>) :
              q \in ScanListings(fs, cf)}

(***************************************************************************)
(* State                                                                   *)
(***************************************************************************)
VARIABLES
    live,      \* the files outside the trash: absolute path -> file
    files,     \* trash_files_dir: name -> file
    info,      \* trash_info_dir: name -> sidecar
    wx,        \* directory -> access(dir, W_OK | X_OK) succeeds
    cwd,       \* the working directory of the process
    conf,      \* conf.show_hidden and filter.str
    trash_n,   \* the global trash_n
    now,       \* the clock, in seconds
    last,      \* what the last command was given, did and returned
    ncmd,      \* commands and environment steps so far
    recur_perm_error_flag   \* the static flag of recur_perm_check (trash.c)

vars == <<live, files, info, wx, cwd, conf, trash_n, now, last, ncmd,
          recur_perm_error_flag>>

Fs == [live |-> live, files |-> files, info |-> info, wx |-> wx]

SetFs(fs) ==
    /\ live' = fs.live
    /\ files' = fs.files
    /\ info' = fs.info
    /\ wx' = fs.wx

NoCmd == [cmd |-> "none"]

Step ==
    /\ ncmd < MaxCmds
    /\ ncmd' = ncmd + 1

Init ==
    /\ live = InitLive
    /\ files = <<>>
    /\ info = <<>>
    /\ wx = [d \in {WsPath} |-> TRUE]
    /\ cwd = WsPath
    /\ conf \in [show_hidden : {0, 1}, filter : {NULL, <<"x">>}, unicode : {0},
                 case_sens_list : {1}, sort_reverse : {0}]
    /\ trash_n = 0
    /\ now = 1
    /\ last = NoCmd
    /\ ncmd = 0
    /\ recur_perm_error_flag = 0

\* The names a del or undel command may be given: every name with a half in
\* the trash, and one with none.
EntryNames(fs) ==
    DOMAIN fs.files
    \cup {SubSeq(k, 1, Len(k) - Len(TrashInfoExt)) : k \in DOMAIN fs.info}

NameArgs(fs) == EntryNames(fs) \cup {ShortName}

\* The words a line typed at a prompt over a listing of n names may hold.
Words(n) == {<<"q">>, <<"*">>, <<"x">>} \cup {<<Digit(k)>> : k \in 0..(n + 1)}

Lines(n) == {<<>>} \cup {<<w>> : w \in Words(n)}

(***************************************************************************)
(* trash FILE...  (trash_function -> trash_files_args)                     *)
(***************************************************************************)
TrashCmd(args, faults) ==
    /\ Step
    /\ \E r \in {trash_files_args(Fs, cwd, now, args, faults, recur_perm_error_flag)} :
           /\ trash_n' = count_trashed_files(Fs)
           /\ SetFs(r.fs)
           /\ recur_perm_error_flag' = r.flag
           /\ last' = [cmd |-> "trash", ret |-> r.exit_status, cwd0 |-> cwd,
                       n |-> r.trashed_files,
                       total |-> IF r.exit_status = EXIT_SUCCESS \/ r.trashed_files > 0
                                 THEN count_trashed_files(Fs) + r.trashed_files
                                 ELSE -1,
                       items |-> r.items]
    /\ UNCHANGED <<cwd, conf, now>>

(***************************************************************************)
(* trash clear | trash empty  (trash_function -> trash_clear)              *)
(***************************************************************************)
ClearCmd(rmfail) ==
    /\ Step
    /\ \E r \in {trash_clear(Fs, conf, rmfail)} :
           /\ trash_n' = count_trashed_files(Fs)
           /\ SetFs(r.fs)
           /\ cwd' = r.cwd
           /\ last' = [cmd |-> "clear", ret |-> r.ret, cwd0 |-> cwd,
                       files_n |-> r.files_n, emptied_msg |-> r.emptied_msg,
                       rmfail |-> rmfail]
    /\ UNCHANGED <<conf, now, recur_perm_error_flag>>

(***************************************************************************)
(* trash | trash ls | trash list  (trash_function -> list_trashed_files)   *)
(***************************************************************************)
ListCmd(trash_files, scan_err) ==
    /\ Step
    /\ \E r \in {list_trashed_files(trash_files, scan_err)} :
           /\ cwd' = r.cwd
           /\ last' = [cmd |-> "list",
                       ret |-> IF r.ret = "-1" \/ r.ret = EXIT_SUCCESS THEN EXIT_SUCCESS
                               ELSE EXIT_FAILURE,
                       cwd0 |-> cwd, printed |-> r.printed, scan_err |-> scan_err]
    /\ UNCHANGED <<live, files, info, wx, conf, trash_n, now, recur_perm_error_flag>>

(***************************************************************************)
(* trash del NAME...  (trash_function -> remove_from_trash_params)         *)
(***************************************************************************)
DelCmd(args, rmfail) ==
    /\ Step
    /\ \E r \in {remove_from_trash_params(Fs, cwd, conf, args, rmfail)} :
           /\ trash_n' = count_trashed_files(Fs)
           /\ SetFs(r.fs)
           /\ cwd' = r.cwd
           /\ last' = [cmd |-> "del", ret |-> r.exit_status, cwd0 |-> cwd,
                       n |-> r.rem_files,
                       total |-> IF r.cleared THEN -1
                                 ELSE count_trashed_files(Fs) - r.rem_files,
                       items |-> r.items, cleared |-> r.cleared]
    /\ UNCHANGED <<conf, now, recur_perm_error_flag>>

(***************************************************************************)
(* trash del  (trash_function -> remove_from_trash, at the prompt)         *)
(***************************************************************************)
DelPromptCmd(trash_files, scan_err, rm_elements, rmfail) ==
    /\ Step
    /\ \E r \in {remove_from_trash(Fs, trash_files, scan_err, rm_elements, rmfail)} :
           /\ trash_n' = count_trashed_files(Fs)
           /\ SetFs(r.fs)
           /\ cwd' = r.cwd
           /\ last' = [cmd |-> "del_prompt", ret |-> r.ret, cwd0 |-> cwd,
                       listing |-> IF scan_err THEN <<>> ELSE trash_files,
                       path |-> r.path, n |-> r.removed_files, items |-> r.items]
    /\ UNCHANGED <<conf, now, recur_perm_error_flag>>

(***************************************************************************)
(* undel NAME...  (untrash_function -> untrash_files)                      *)
(***************************************************************************)
UndelCmd(args, faults) ==
    /\ Step
    /\ \E r \in {untrash_files(Fs, cwd, args, faults)} :
           /\ SetFs(r.fs)
           /\ last' = [cmd |-> "undel", ret |-> r.ret, cwd0 |-> cwd,
                       n |-> r.untrashed_files, total |-> r.total, items |-> r.items]
    /\ UNCHANGED <<cwd, conf, trash_n, now, recur_perm_error_flag>>

(***************************************************************************)
(* undel all | undel a | undel *  (untrash_function -> untrash_all)        *)
(***************************************************************************)
UndelAllCmd(trash_files, faults) ==
    /\ Step
    /\ \E r \in {IF Len(trash_files) = 0
                 THEN [fs |-> Fs, cwd |-> WsPath, ret |-> EXIT_SUCCESS, items |-> <<>>,
                       total |-> -1, path |-> "empty"]
                 ELSE untrash_all(Fs, trash_files, faults)} :
           /\ SetFs(r.fs)
           /\ cwd' = r.cwd
           /\ last' = [cmd |-> "undel_all", ret |-> r.ret, cwd0 |-> cwd,
                       listing |-> trash_files, path |-> r.path, total |-> r.total,
                       items |-> r.items]
    /\ UNCHANGED <<conf, trash_n, now, recur_perm_error_flag>>

(***************************************************************************)
(* undel  (untrash_function, at the prompt)                                *)
(***************************************************************************)
UndelPromptCmd(lines, faults) ==
    /\ Step
    /\ \E r \in UndelPrompt(Fs, trash_n, conf, lines, faults, 1) :
           /\ SetFs(r.fs)
           /\ cwd' = r.cwd
           /\ trash_n' = r.trash_n
           /\ last' = [cmd |-> "undel_prompt", ret |-> r.ret, cwd0 |-> cwd,
                       listing |-> r.listing, path |-> r.path, items |-> r.items]
    /\ UNCHANGED <<conf, now, recur_perm_error_flag>>

(***************************************************************************)
(* A del or undel at the prompt, raced by another process: the entry       *)
(* VICTIM is deleted (its file, or its file and its sidecar) after scandir *)
(* gave the listing and before the entries selected are worked on.         *)
(***************************************************************************)
ExternalRm(fs, victim, both) ==
    [fs EXCEPT !.files = Without(@, victim),
               !.info = IF both THEN Without(@, InfoName(victim)) ELSE @]

DelRaceCmd(trash_files, victim, both, rm_elements) ==
    /\ Step
    /\ \E r \in {remove_from_trash(ExternalRm(Fs, victim, both), trash_files, FALSE,
                                   rm_elements, {})} :
           /\ trash_n' = count_trashed_files(Fs)
           /\ SetFs(r.fs)
           /\ cwd' = r.cwd
           /\ last' = [cmd |-> "del_race", ret |-> r.ret, cwd0 |-> cwd,
                       listing |-> trash_files, path |-> r.path,
                       n |-> r.removed_files, items |-> r.items, victim |-> victim]
    /\ UNCHANGED <<conf, now, recur_perm_error_flag>>

UndelRaceCmd(trash_files, victim, both, undel_elements) ==
    /\ Step
    /\ \E r \in UndelListed(ExternalRm(Fs, victim, both), trash_n, conf,
                            <<undel_elements>>, [n \in {} |-> "none"], 1,
                            trash_files, undel_elements) :
           /\ SetFs(r.fs)
           /\ cwd' = r.cwd
           /\ trash_n' = r.trash_n
           /\ last' = [cmd |-> "undel_race", ret |-> r.ret, cwd0 |-> cwd,
                       listing |-> trash_files, path |-> r.path, items |-> r.items,
                       victim |-> victim]
    /\ UNCHANGED <<conf, now, recur_perm_error_flag>>

(***************************************************************************)
(* The environment: other programs and the clock                           *)
(***************************************************************************)
\* A new file or a dangling symbolic link appears at a free path of the
\* workspace.
Create(p, kind) ==
    /\ Step
    /\ p \notin DOMAIN live
    /\ wx[WsPath]
    /\ live' = With(live, p, [kind |-> kind, data |-> "new", immut |-> FALSE])
    /\ last' = [cmd |-> "env"]
    /\ UNCHANGED <<files, info, wx, cwd, conf, trash_n, now, recur_perm_error_flag>>

\* chmod u-wx / u+wx on the workspace directory.
Chmod ==
    /\ Step
    /\ wx' = [wx EXCEPT ![WsPath] = ~@]
    /\ last' = [cmd |-> "env"]
    /\ UNCHANGED <<live, files, info, cwd, conf, trash_n, now, recur_perm_error_flag>>

\* A second goes by.
Tick ==
    /\ Step
    /\ now < MaxTime
    /\ now' = now + 1
    /\ last' = [cmd |-> "env"]
    /\ UNCHANGED <<live, files, info, wx, cwd, conf, trash_n, recur_perm_error_flag>>

\* The faults untrash_file may meet in one command: none, or one fault at one
\* of the names of S.
NameFaults(S) ==
    {[n \in {} |-> "none"]}
    \cup {[n \in {v} |-> f] : v \in S, f \in UntrashFaults \ {"none"}}

\* Does the line select an entry of a listing of n names?
Selects(l, n) ==
    /\ Len(l) > 0
    /\ l[1] = <<"*">> \/ (is_number(l[1]) /\ atoi(l[1]) \in 1..n)

\* The rm failures that can show after the line l: none when l selects nothing.
RmFails(l, n, S) == IF Selects(l, n) THEN SUBSET S ELSE {{}}

\* The same for the faults of untrash_file.
UndelFaults(l, n, S) == IF Selects(l, n) THEN NameFaults(S) ELSE {[n_ \in {} |-> "none"]}

Next ==
    \/ \E a \in PathArgs, f \in TrashFaults : TrashCmd(<<a>>, <<f>>)
    \/ \E rmfail \in SUBSET DOMAIN files : ClearCmd(rmfail)
    \/ \E q \in ScanListings(Fs, conf) : ListCmd(q, FALSE)
    \/ ListCmd(<<>>, TRUE)
    \/ \E a \in NameArgs(Fs) \cup {<<"*">>}, rmfail \in SUBSET DOMAIN files :
           DelCmd(<<a>>, rmfail)
    \/ \E q \in ScanListings(Fs, conf) : \E l \in Lines(Len(q)) :
           \E rmfail \in RmFails(l, Len(q), DOMAIN files) :
               DelPromptCmd(q, FALSE, l, rmfail)
    \/ DelPromptCmd(<<>>, TRUE, <<>>, {})
    \/ \E a \in NameArgs(Fs) : \E fm \in NameFaults({a}) : UndelCmd(<<a>>, fm)
    \/ \E q \in ScanListings(Fs, conf) : \E fm \in NameFaults(DOMAIN files) :
           UndelAllCmd(q, fm)
    \/ \E l \in Lines(Cardinality(DOMAIN files)) :
           \E fm \in UndelFaults(l, Cardinality(DOMAIN files), DOMAIN files) :
               UndelPromptCmd(<<l>>, fm)
    \/ \E p \in DOMAIN InitLive, k \in {"reg", "lnk"} : Create(p, k)
    \/ Chmod
    \/ Tick

Spec == Init /\ [][Next]_vars

(***************************************************************************)
(* Names of every length: one file in the workspace, whose name has any    *)
(* length a directory entry may have, trashed by its relative or its       *)
(* absolute path.                                                          *)
(***************************************************************************)
InitName ==
    /\ \E n \in 1..NAME_MAX :
           live = [p \in {PathJoin(WsPath, Rep("x", n))} |->
                      [kind |-> "reg", data |-> "long", immut |-> FALSE]]
    /\ files = <<>>
    /\ info = <<>>
    /\ wx = [d \in {WsPath} |-> TRUE]
    /\ cwd = WsPath
    /\ conf = [show_hidden |-> 1, filter |-> NULL, unicode |-> 0,
               case_sens_list |-> 1, sort_reverse |-> 0]
    /\ trash_n = 0
    /\ now \in 1..MaxTime
    /\ last = NoCmd
    /\ ncmd = 0
    /\ recur_perm_error_flag = 0

NextName ==
    \E p \in DOMAIN live : \E a \in {p, Basename(p)} : TrashCmd(<<a>>, <<"none">>)

SpecName == InitName /\ [][NextName]_vars

(***************************************************************************)
(* Paths of the trash given to the trash command: the root directory, the  *)
(* trash directory, its files directory, and the trashed files, by their   *)
(* plain path and by a path through the workspace and "..".                *)
(***************************************************************************)
DotDotPath(p) == PathJoin(PathJoin(WsPath, <<".", ".">>), Tail(p))

TrashDirArgs(fs) ==
    {<<"/">>, trash_dir, trash_dir \o <<"/">>, trash_files_dir}
    \cup {PathJoin(trash_files_dir, N) : N \in DOMAIN fs.files}
    \cup {DotDotPath(PathJoin(trash_files_dir, N)) : N \in DOMAIN fs.files}

NextInside ==
    \/ \E a \in PathArgs : TrashCmd(<<a>>, <<"none">>)
    \/ \E a \in TrashDirArgs(Fs) : TrashCmd(<<a>>, <<"none">>)
    \/ Tick

SpecInside == Init /\ [][NextInside]_vars

(***************************************************************************)
(* Beside the trash: the root directory holds, next to the trash           *)
(* directory, a file or directory whose name begins with the name of the   *)
(* trash directory; it is trashed by its absolute path, with or without a  *)
(* slash at the end, and so are the trash directory and the root.          *)
(***************************************************************************)
Sibling == trash_dir \o <<"2">>

SiblingArgs ==
    {ShortName, PathJoin(WsPath, ShortName), Sibling, Sibling \o <<"/">>,
     trash_dir, <<"/">>}

InitSibling ==
    /\ \E k \in {"reg", "dir"} :
           live = [p \in {PathJoin(WsPath, ShortName), Sibling} |->
                      IF p = Sibling /\ k = "dir"
                      THEN [kind |-> "dir", data |-> "dir", immut |-> FALSE, rd |-> TRUE]
                      ELSE [kind |-> "reg", data |-> "short", immut |-> FALSE]]
    /\ files = <<>>
    /\ info = <<>>
    /\ wx = [d \in {<<"/">>, WsPath, Sibling} |-> TRUE]
    /\ cwd = WsPath
    /\ conf \in [show_hidden : {0, 1}, filter : {NULL, <<"x">>}, unicode : {0},
                 case_sens_list : {1}, sort_reverse : {0}]
    /\ trash_n = 0
    /\ now = 1
    /\ last = NoCmd
    /\ ncmd = 0
    /\ recur_perm_error_flag = 0

NextSibling ==
    \/ \E a \in SiblingArgs : TrashCmd(<<a>>, <<"none">>)
    \/ Tick

SpecSibling == InitSibling /\ [][NextSibling]_vars

(***************************************************************************)
(* Batches: commands given two arguments.  The workspace holds a plain     *)
(* file, an immutable file and a file whose name needs quoting; a second   *)
(* directory, which the user may not write, holds one more file.           *)
(***************************************************************************)
RoDir == <<"/", "r">>

BatchLive ==
    [p \in {PathJoin(WsPath, <<"a">>), PathJoin(WsPath, <<"b">>),
            PathJoin(WsPath, ShortName), PathJoin(RoDir, <<"e">>)} |->
        [kind |-> "reg", data |-> "short", immut |-> (p = PathJoin(WsPath, <<"b">>))]]

\* The arguments of a trash command: the four files (the quoted name as it is
\* typed, with its backslash), a name that is no file, the trash directory.
BatchArgs ==
    {<<"a">>, <<"b">>, <<".", "a", "\\", " ", "b">>, PathJoin(RoDir, <<"e">>),
     <<"n">>, trash_dir}

\* What the environment does to one argument of a trash command.
BatchFaults == {"none", "info_open_fail", "dequote_fail"}

InitBatch ==
    /\ live = BatchLive
    /\ files = <<>>
    /\ info = <<>>
    /\ wx = [d \in {WsPath, RoDir} |-> d = WsPath]
    /\ cwd = WsPath
    /\ conf = [show_hidden |-> 1, filter |-> NULL, unicode |-> 0,
               case_sens_list |-> 1, sort_reverse |-> 0]
    /\ trash_n = 0
    /\ now = 1
    /\ last = NoCmd
    /\ ncmd = 0
    /\ recur_perm_error_flag = 0

NextBatch ==
    \/ \E a1 \in BatchArgs, a2 \in BatchArgs, f1 \in BatchFaults, f2 \in BatchFaults :
           TrashCmd(<<a1, a2>>, <<f1, f2>>)
    \/ \E a1 \in NameArgs(Fs), a2 \in NameArgs(Fs), rmfail \in SUBSET DOMAIN files :
           DelCmd(<<a1, a2>>, rmfail)
    \/ \E a1 \in NameArgs(Fs), a2 \in NameArgs(Fs) : \E fm \in NameFaults({a1, a2}) :
           UndelCmd(<<a1, a2>>, fm)
    \/ Tick

SpecBatch == InitBatch /\ [][NextBatch]_vars

(***************************************************************************)
(* Damaged entries: the workspace holds two plain files and a dangling     *)
(* symbolic link; they are trashed in one command, in which the writing of *)
(* a sidecar may fail; the entries are then removed or restored two at a   *)
(* time, by name or by number.                                             *)
(***************************************************************************)
RmLive ==
    [p \in {PathJoin(WsPath, <<"a">>), PathJoin(WsPath, <<"b">>),
            PathJoin(WsPath, <<"l">>)} |->
        [kind |-> IF p = PathJoin(WsPath, <<"l">>) THEN "lnk" ELSE "reg",
         data |-> "short", immut |-> FALSE]]

\* What may happen to the sidecar of each of the three files trashed.
RmTrashFaults == [1..3 -> {"none", "info_rm_fail", "encode_fail"}]

\* The numbers typed at a prompt over a listing of n names, n + 1 among them.
Numbers(n) == {<<Digit(k)>> : k \in 1..(n + 1)}

\* rm(1) fails for no entry, or for one.
RmOne(S) == {{}} \cup {{n} : n \in S}

InitRemove ==
    /\ live = RmLive
    /\ files = <<>>
    /\ info = <<>>
    /\ wx = [d \in {WsPath} |-> TRUE]
    /\ cwd = WsPath
    /\ conf = [show_hidden |-> 1, filter |-> NULL, unicode |-> 0,
               case_sens_list |-> 1, sort_reverse |-> 0]
    /\ trash_n = 0
    /\ now = 1
    /\ last = NoCmd
    /\ ncmd = 0
    /\ recur_perm_error_flag = 0

NextRemove ==
    \/ \E f \in RmTrashFaults : TrashCmd(<<<<"a">>, <<"b">>, <<"l">>>>, f)
    \/ \E a1 \in NameArgs(Fs), a2 \in NameArgs(Fs), rmfail \in RmOne(DOMAIN files) :
           DelCmd(<<a1, a2>>, rmfail)
    \/ \E q \in ScanListings(Fs, conf) :
           \E w1 \in Words(Len(q)), w2 \in Words(Len(q)) :
               DelPromptCmd(q, FALSE, <<w1, w2>>, {})
    \/ \E a1 \in NameArgs(Fs), a2 \in NameArgs(Fs) :
           \E fm \in {[n \in S |-> "rm_info_fail"] : S \in {{}, {a1}}} :
               UndelCmd(<<a1, a2>>, fm)
    \/ \E q \in ScanListings(Fs, conf) :
           \E victim \in DOMAIN files, both \in BOOLEAN,
              w1 \in Numbers(Len(q)), w2 \in Numbers(Len(q)) :
               DelRaceCmd(q, victim, both, <<w1, w2>>)
    \/ \E q \in ScanListings(Fs, conf) :
           \E victim \in DOMAIN files, both \in BOOLEAN,
              w1 \in Numbers(Len(q)), w2 \in Numbers(Len(q)) :
               UndelRaceCmd(q, victim, both, <<w1, w2>>)

SpecRemove == InitRemove /\ [][NextRemove]_vars

(***************************************************************************)
(* Directories: the workspace holds the directory x, with a plain file f   *)
(* and a subdirectory s in it, and a subdirectory e in s.  Each of the     *)
(* three directories may lack write or search permission, be closed to     *)
(* opendir, or carry the immutable flag.  The directory is trashed by its  *)
(* relative or absolute path, and so is its subdirectory.                  *)
(***************************************************************************)
DirX == PathJoin(WsPath, <<"x">>)
DirS == PathJoin(DirX, <<"s">>)
DirE == PathJoin(DirS, <<"e">>)

DirArgs == {<<"x">>, DirX, DirX \o <<"/">>, <<"x", "/", "s">>}

InitDir ==
    /\ \E r \in [{DirX, DirS, DirE} -> BOOLEAN], im \in [{DirX, DirS, DirE} -> BOOLEAN] :
           live = [p \in {DirX, DirS, DirE, PathJoin(DirX, <<"f">>)} |->
                      IF p = PathJoin(DirX, <<"f">>)
                      THEN [kind |-> "reg", data |-> "short", immut |-> FALSE]
                      ELSE [kind |-> "dir", data |-> "dir", immut |-> im[p], rd |-> r[p]]]
    /\ \E w \in [{DirX, DirS, DirE} -> BOOLEAN] :
           wx = [d \in {WsPath, DirX, DirS, DirE} |-> d = WsPath \/ w[d]]
    /\ files = <<>>
    /\ info = <<>>
    /\ cwd = WsPath
    /\ conf = [show_hidden |-> 1, filter |-> NULL, unicode |-> 0,
               case_sens_list |-> 1, sort_reverse |-> 0]
    /\ trash_n = 0
    /\ now = 1
    /\ last = NoCmd
    /\ ncmd = 0
    /\ recur_perm_error_flag = 0

NextDir == \E a \in DirArgs : TrashCmd(<<a>>, <<"none">>)

SpecDir == InitDir /\ [][NextDir]_vars

(***************************************************************************)
(* Two directory trees trashed in one command or in successive commands:   *)
(* x, holding s, e below s and a plain file, under any permissions of the  *)
(* three directories; and y, holding t, open to everything.                *)
(***************************************************************************)
DirY == PathJoin(WsPath, <<"y">>)
DirT == PathJoin(DirY, <<"t">>)

FlagArgs == {<<"x">>, <<"y">>, <<"x", "/", "s">>, DirY \o <<"/">>}

InitFlag ==
    /\ live = [p \in {DirX, DirS, DirE, PathJoin(DirX, <<"f">>), DirY, DirT} |->
                  IF p = PathJoin(DirX, <<"f">>)
                  THEN [kind |-> "reg", data |-> "short", immut |-> FALSE]
                  ELSE [kind |-> "dir", data |-> "dir", immut |-> FALSE, rd |-> TRUE]]
    /\ \E w \in [{DirX, DirS, DirE} -> BOOLEAN] :
           wx = [d \in {WsPath, DirX, DirS, DirE, DirY, DirT} |->
                    IF d \in {DirX, DirS, DirE} THEN w[d] ELSE TRUE]
    /\ files = <<>>
    /\ info = <<>>
    /\ cwd = WsPath
    /\ conf = [show_hidden |-> 1, filter |-> NULL, unicode |-> 0,
               case_sens_list |-> 1, sort_reverse |-> 0]
    /\ trash_n = 0
    /\ now = 1
    /\ last = NoCmd
    /\ ncmd = 0
    /\ recur_perm_error_flag = 0

NextFlag ==
    \/ \E a \in FlagArgs : TrashCmd(<<a>>, <<"none">>)
    \/ \E a1 \in FlagArgs, a2 \in FlagArgs : TrashCmd(<<a1, a2>>, <<"none", "none">>)

SpecFlag == InitFlag /\ [][NextFlag]_vars

(***************************************************************************)
(* The sort engine: two entries of a listing are compared under every      *)
(* sort configuration, the order is reversed ("st rev"), and a listing is  *)
(* sorted.                                                                 *)
(***************************************************************************)
FileInfo(name, dir, size, time, inode, uid, gid) ==
    [name |-> name, dir |-> dir, size |-> size, time |-> time, inode |-> inode,
     uid |-> uid, gid |-> gid]

ImgEntries ==
    {FileInfo(<<"i", "m", "g", "1">>, 0, 2, 1, 1, 1, 1),
     FileInfo(<<"i", "m", "g", "2">>, 0, 1, 2, 2, 1, 2),
     FileInfo(<<"i", "m", "g", "1", "0">>, 0, 1, 1, 3, 2, 1)}

Entries ==
    ImgEntries
    \cup {FileInfo(<<".", "a">>, 0, 1, 1, 4, 1, 1),
          FileInfo(<<"a">>, 0, 1, 1, 5, 1, 1),
          FileInfo(<<"a", ".", "g", "z">>, 0, 2, 2, 6, 2, 2),
          FileInfo(<<"b", ".", "G", "Z">>, 0, 1, 1, 7, 1, 1),
          FileInfo(<<".", "z">>, 0, 1, 2, 8, 1, 2),
          FileInfo(<<"a", ".", "b">>, 0, 2, 1, 9, 2, 1),
          FileInfo(<<"z">>, 1, 1, 1, 10, 1, 1),
          FileInfo(<<"B">>, 1, 2, 2, 11, 2, 2)}

SortKeys ==
    {"SNONE", "SNAME", "STSIZE", "SATIME", "SBTIME", "SCTIME", "SMTIME", "SVER",
     "SEXT", "SINO", "SOWN", "SGRP"}

InitSort ==
    /\ live = InitLive
    /\ files = <<>>
    /\ info = <<>>
    /\ wx = [d \in {WsPath} |-> TRUE]
    /\ cwd = WsPath
    /\ conf \in [show_hidden : {1}, filter : {NULL}, unicode : {0},
                 case_sens_list : {0, 1}, sort_reverse : {0, 1}, sort : SortKeys,
                 list_dirs_first : {0, 1}, light_mode : {0, 1}]
    /\ trash_n = 0
    /\ now = 1
    /\ last = NoCmd
    /\ ncmd = 0
    /\ recur_perm_error_flag = 0

\* qsort calls entrycmp on two entries of the listing.
EntryCmp(a, b) ==
    /\ Step
    /\ last.cmd = "none"
    /\ last' = [cmd |-> "entrycmp", a |-> a, b |-> b, ret |-> entrycmp(conf, a, b)]
    /\ UNCHANGED <<live, files, info, wx, cwd, conf, trash_n, now, recur_perm_error_flag>>

\* sort_function, "st rev": toggle_sort_reverse, and the listing is sorted
\* again; the same two entries are compared.
SortRev ==
    /\ Step
    /\ last.cmd = "entrycmp"
    /\ \E c \in {[conf EXCEPT !.sort_reverse = IF @ = 0 THEN 1 ELSE 0]} :
           /\ conf' = c
           /\ last' = [cmd |-> "rev", a |-> last.a, b |-> last.b,
                       ret |-> entrycmp(c, last.a, last.b), before |-> last.ret]
    /\ UNCHANGED <<live, files, info, wx, cwd, trash_n, now, recur_perm_error_flag>>

\* sort_function, "st": the sort method in use is printed.
SortMethod ==
    /\ Step
    /\ last' = [cmd |-> "method", text |-> print_sort_method(conf)]
    /\ UNCHANGED <<live, files, info, wx, cwd, conf, trash_n, now, recur_perm_error_flag>>

\* The orders qsort may leave the entries of S in.
SortedOrders(cf, S) ==
    {q \in Orders(S) : \A i, j \in 1..Len(q) : i < j => entrycmp(cf, q[i], q[j]) <= 0}

\* re_sort_files_list: the listing is read and sorted by entrycmp.
SortList(S) ==
    /\ Step
    /\ last.cmd = "none"
    /\ \E q \in SortedOrders(conf, S) :
           last' = [cmd |-> "sort", order |-> [i \in 1..Len(q) |-> q[i].name]]
    /\ UNCHANGED <<live, files, info, wx, cwd, conf, trash_n, now, recur_perm_error_flag>>

NextSort ==
    \/ \E a \in Entries, b \in Entries : EntryCmp(a, b)
    \/ SortRev
    \/ SortList(ImgEntries)
    \/ SortMethod

SpecSort == InitSort /\ [][NextSort]_vars

(***************************************************************************)
(* The reversal in the arithmetic of int (32 bits, two's complement).      *)
(* Signed overflow is undefined: a build either keeps the low 32 bits of   *)
(* the result or traps.                                                    *)
(***************************************************************************)
INT_MAX == 2147483647

INT_MIN == -INT_MAX - 1

\* 2^30
IntHalf == INT_MAX \div 2 + 1

\* ret * 2 in int: the low 32 bits, and whether the product left the range.
IntTwice(x) ==
    IF x >= IntHalf THEN [val |-> ((x - IntHalf) - IntHalf) * 2, overflow |-> TRUE]
    ELSE IF x < -IntHalf THEN [val |-> ((x + IntHalf) + IntHalf) * 2, overflow |-> TRUE]
    ELSE [val |-> x * 2, overflow |-> FALSE]

\* a - b in int: the low 32 bits, and whether the difference left the range.
IntMinus(a, b) ==
    IF b < 0 /\ a > INT_MAX + b
    THEN [val |-> ((a - IntHalf) - IntHalf) - ((b + IntHalf) + IntHalf),
          overflow |-> TRUE]
    ELSE IF b > 0 /\ a < INT_MIN + b
    THEN [val |-> ((a + IntHalf) + IntHalf) + ((IntHalf - b) + IntHalf),
          overflow |-> TRUE]
    ELSE [val |-> a - b, overflow |-> FALSE]

\* ret - (ret * 2), given the product.
ReverseMinus(ret, twice) ==
    [val |-> IntMinus(ret, twice.val).val,
     overflow |-> twice.overflow \/ IntMinus(ret, twice.val).overflow]

\* What return (ret - (ret * 2)) may do.
ReverseOutcomes(ret) ==
    IF ReverseMinus(ret, IntTwice(ret)).overflow
    THEN {[val |-> ReverseMinus(ret, IntTwice(ret)).val, overflow |-> TRUE, trap |-> FALSE],
          [val |-> 0, overflow |-> TRUE, trap |-> TRUE]}
    ELSE {[val |-> ReverseMinus(ret, IntTwice(ret)).val, overflow |-> FALSE, trap |-> FALSE]}

\* The end of entrycmp, xalphasort and alphasort_insensitive.
ReversedInt(cf, ret) ==
    IF cf.sort_reverse = 0 THEN {[val |-> ret, overflow |-> FALSE, trap |-> FALSE]}
    ELSE ReverseOutcomes(ret)

SmallRet == 8

\* Values of the comparison underneath: small differences, differences of
\* bytes, and the values around the ends and the halves of the range of int.
RetValues ==
    (-SmallRet..SmallRet)
    \cup {INT_MIN, INT_MIN + 1, -IntHalf - 1, -IntHalf, 1 - IntHalf, -255, 255,
          IntHalf - 1, IntHalf, IntHalf + 1, INT_MAX - 1, INT_MAX}

CompareFns == {"entrycmp", "xalphasort", "alphasort_insensitive"}

InitRev ==
    /\ live = InitLive
    /\ files = <<>>
    /\ info = <<>>
    /\ wx = [d \in {WsPath} |-> TRUE]
    /\ cwd = WsPath
    /\ conf \in [show_hidden : {1}, filter : {NULL}, unicode : {0},
                 case_sens_list : {1}, sort_reverse : {0, 1}, sort : {"SNAME"},
                 list_dirs_first : {0}, light_mode : {0}]
    /\ trash_n = 0
    /\ now = 1
    /\ last = NoCmd
    /\ ncmd = 0
    /\ recur_perm_error_flag = 0

\* The comparison underneath fn (strcmp, strcoll, strcasecmp) has returned
\* ret, and fn returns.
CompareReturn(fn, ret) ==
    /\ Step
    /\ \E o \in ReversedInt(conf, ret) :
           last' = [cmd |-> "reverse", fn |-> fn, ret |-> ret, out |-> o]
    /\ UNCHANGED <<live, files, info, wx, cwd, conf, trash_n, now, recur_perm_error_flag>>

NextRev == \E fn \in CompareFns, ret \in RetValues : CompareReturn(fn, ret)

SpecRev == InitRev /\ [][NextRev]_vars

(***************************************************************************)
(* sort_function: st [METHOD | NUMBER] [rev]                               *)
(* The table of the methods is the list of keys of the sort engine: none,  *)
(* name, size, atime, btime, ctime, mtime, version, extension, inode,      *)
(* owner, group, numbered from 0.                                          *)
(***************************************************************************)
SORT_TYPES == 11

sort_methods ==
    << <<"n", "o", "n", "e">>, <<"n", "a", "m", "e">>, <<"s", "i", "z", "e">>,
       <<"a", "t", "i", "m", "e">>, <<"b", "t", "i", "m", "e">>,
       <<"c", "t", "i", "m", "e">>, <<"m", "t", "i", "m", "e">>,
       <<"v", "e", "r", "s", "i", "o", "n">>,
       <<"e", "x", "t", "e", "n", "s", "i", "o", "n">>,
       <<"i", "n", "o", "d", "e">>, <<"o", "w", "n", "e", "r">>,
       <<"g", "r", "o", "u", "p">> >>

\* The key conf.sort holds for a number of 0..SORT_TYPES.
SortOfNum ==
    <<"SNONE", "SNAME", "STSIZE", "SATIME", "SBTIME", "SCTIME", "SMTIME", "SVER",
      "SEXT", "SINO", "SOWN", "SGRP">>

\* snprintf(*arg, 32, "%d", num) for the numbers of the table.
NumText(n) == IF n < 10 THEN <<Digit(n)>> ELSE <<Digit(n \div 10), Digit(n % 10)>>

Rev == <<"r", "e", "v">>

\* Lines 434-449: the number of the method named, written over the name.
set_sort_by_name(arg) ==
    IF \E i \in 0..SORT_TYPES : sort_methods[i + 1] = arg
    THEN [ret |-> EXIT_SUCCESS,
          arg |-> NumText(CHOOSE i \in 0..SORT_TYPES : sort_methods[i + 1] = arg)]
    ELSE [ret |-> EXIT_FAILURE, arg |-> arg]

\* The value of a string of digits, kept in two halves of 16 bits; over says
\* that it went beyond 32 bits.
RECURSIVE DigitsValue(_, _, _)
DigitsValue(s, i, acc) ==
    IF i > Len(s) THEN acc
    ELSE DigitsValue(s, i + 1,
            [lo |-> (acc.lo * 10 + (ByteOf(s[i]) - 48)) % 65536,
             hi |-> (acc.hi * 10 + (acc.lo * 10 + (ByteOf(s[i]) - 48)) \div 65536) % 65536,
             over |-> acc.over
                      \/ acc.hi * 10 + (acc.lo * 10 + (ByteOf(s[i]) - 48)) \div 65536 >= 65536])

\* The low 32 bits of v, read as an int.
Low32(v) == IF v.hi >= 32768 THEN (v.hi - 65536) * 65536 + v.lo ELSE v.hi * 65536 + v.lo

\* atoi(3) of a string of digits.  A value int cannot hold is undefined
\* behaviour: the low 32 bits come back where long has 64 bits or the
\* conversion wraps, INT_MAX where strtol saturates a long of 32 bits.
AtoiOf(v) ==
    IF ~v.over /\ v.hi < 32768 THEN {Low32(v)} ELSE {Low32(v), INT_MAX}

AtoiInt(s) == AtoiOf(DigitsValue(s, 1, [lo |-> 0, hi |-> 0, over |-> FALSE]))

\* Lines 406-413.
toggle_sort_reverse(cf) == [cf EXCEPT !.sort_reverse = IF @ # 0 THEN 0 ELSE 1]

\* Lines 472-487: the number N is taken, or turned down.
SortByNumber(cf, n, arg2) ==
    IF n >= 0 /\ n <= SORT_TYPES
    THEN [ret |-> EXIT_SUCCESS,
          cf |-> IF arg2 = Rev
                 THEN toggle_sort_reverse([cf EXCEPT !.sort = SortOfNum[n + 1]])
                 ELSE [cf EXCEPT !.sort = SortOfNum[n + 1]]]
    ELSE [ret |-> EXIT_FAILURE, cf |-> cf]

\* Lines 472-473: the text of arg[1], a string of digits by now.
SortByText(cf, text, arg2) == {SortByNumber(cf, n, arg2) : n \in AtoiInt(text)}

\* Lines 461-487: sort_function with an argument; arg2 is NULL when there is
\* none.  The outcomes atoi leaves open.
sort_function(cf, arg1, arg2) ==
    IF ~is_number(arg1)
    THEN (IF arg1 = Rev THEN {[ret |-> EXIT_SUCCESS, cf |-> toggle_sort_reverse(cf)]}
          ELSE IF set_sort_by_name(arg1).ret = EXIT_FAILURE
          THEN {[ret |-> EXIT_FAILURE, cf |-> cf]}
          ELSE SortByText(cf, set_sort_by_name(arg1).arg, arg2))
    ELSE SortByText(cf, arg1, arg2)

\* st ARG1 [ARG2]
SortCmd(arg1, arg2) ==
    /\ Step
    /\ \E r \in sort_function(conf, arg1, arg2) :
           /\ conf' = r.cf
           /\ last' = [cmd |-> "st", arg1 |-> arg1, arg2 |-> arg2, ret |-> r.ret]
    /\ UNCHANGED <<live, files, info, wx, cwd, trash_n, now, recur_perm_error_flag>>

\* What is typed after st: names of methods, rev, words that name nothing,
\* numbers in the range, beyond it, and beyond what int holds.
StArgs ==
    {sort_methods[i] : i \in {1, 2, 3, 8, 11, 12}}
    \cup {Rev, <<"r">>, <<"r", "e", "v", "s">>, <<"n", "a", "m">>, <<"-", "1">>}
    \cup {<<"0">>, <<"1">>, <<"7">>, <<"1", "1">>, <<"0", "0", "3">>, <<"1", "2">>,
          <<"9", "9">>,
          <<"2", "1", "4", "7", "4", "8", "3", "6", "4", "7">>,
          <<"2", "1", "4", "7", "4", "8", "3", "6", "4", "8">>,
          <<"4", "2", "9", "4", "9", "6", "7", "2", "9", "6">>,
          <<"4", "2", "9", "4", "9", "6", "7", "3", "0", "7">>,
          <<"4", "2", "9", "4", "9", "6", "7", "3", "0", "8">>}

InitSt ==
    /\ live = InitLive
    /\ files = <<>>
    /\ info = <<>>
    /\ wx = [d \in {WsPath} |-> TRUE]
    /\ cwd = WsPath
    /\ conf \in [show_hidden : {1}, filter : {NULL}, unicode : {0},
                 case_sens_list : {1}, sort_reverse : {0, 1}, sort : {"SNAME", "SVER"},
                 list_dirs_first : {1}, light_mode : {0, 1}]
    /\ trash_n = 0
    /\ now = 1
    /\ last = NoCmd
    /\ ncmd = 0
    /\ recur_perm_error_flag = 0

NextSt ==
    \/ \E arg1 \in StArgs, arg2 \in {NULL, Rev, <<"r">>} : SortCmd(arg1, arg2)
    \/ SortMethod

SpecSt == InitSt /\ [][NextSt]_vars

(***************************************************************************)
(* The comparison routines for strings, on names that hold bytes of 128    *)
(* and more, for a build whose char is signed and one whose char is not.   *)
(***************************************************************************)
AlphaNames ==
    {<<"a">>, <<"a", "b">>, <<"b">>, <<"B">>, <<"~">>, <<".", "a">>,
     <<"0xC3", "0xA9">>, <<"0xC3", "0xA9", "a">>, <<"0xE2">>, <<"z", "0xC3">>}

InitAlpha ==
    /\ live = InitLive
    /\ files = <<>>
    /\ info = <<>>
    /\ wx = [d \in {WsPath} |-> TRUE]
    /\ cwd = WsPath
    /\ conf \in [show_hidden : {1}, filter : {NULL}, unicode : {0},
                 case_sens_list : {1}, sort_reverse : {0, 1}, sort : {"SNAME"},
                 list_dirs_first : {0}, light_mode : {0}]
    /\ trash_n = 0
    /\ now = 1
    /\ last = NoCmd
    /\ ncmd = 0
    /\ recur_perm_error_flag = 0

\* scandir calls xalphasort on two names.
XalphaCmp(a, b, char_signed) ==
    /\ Step
    /\ last' = [cmd |-> "xalphasort", a |-> a, b |-> b, char_signed |-> char_signed,
                ret |-> xalphasort_char(conf, a, b, char_signed)]
    /\ UNCHANGED <<live, files, info, wx, cwd, conf, trash_n, now, recur_perm_error_flag>>

\* qsort calls compare_strings on two strings, in either build.
CompareStrings(have_strcoll, a, b, char_signed) ==
    /\ Step
    /\ last' = [cmd |-> "compare_strings", have_strcoll |-> have_strcoll, a |-> a,
                b |-> b, char_signed |-> char_signed,
                ret |-> compare_strings(have_strcoll, a, b, char_signed)]
    /\ UNCHANGED <<live, files, info, wx, cwd, conf, trash_n, now, recur_perm_error_flag>>

NextAlpha ==
    \/ \E a \in AlphaNames, b \in AlphaNames, sg \in BOOLEAN : XalphaCmp(a, b, sg)
    \/ \E a \in AlphaNames, b \in AlphaNames, sg \in BOOLEAN, hs \in BOOLEAN :
           CompareStrings(hs, a, b, sg)

SpecAlpha == InitAlpha /\ [][NextAlpha]_vars

(***************************************************************************)
(* entrycmp on names that mix punctuation, runs of digits, zeros in front, *)
(* letters of both cases and bytes of 128 and more.                        *)
(***************************************************************************)
CmpNames ==
    {<<"1">>, <<"0", "1">>, <<"1", "0">>, <<"2">>, <<"1", "a">>, <<"1", "B">>,
     <<"a">>, <<"A">>, <<"B">>, <<"b", "1">>, <<"a", "2">>, <<"a", "1", "0">>,
     <<"-", "a">>, <<"_">>, <<"-">>, <<"_", "0", "2">>, <<"0x80">>, <<"G">>, <<"z">>,
     <<"0xC3", "0xA9">>, <<"-", "0xC3", "0xA9">>}

CmpEntries ==
    {FileInfo(n, 0, 1, 1, 1, 1, 1) : n \in CmpNames}
    \cup {FileInfo(<<"0", "1">>, 1, 1, 1, 1, 1, 1), FileInfo(<<"B">>, 1, 1, 1, 1, 1, 1),
          FileInfo(<<"a">>, 0, 2, 1, 1, 1, 1)}

InitCmp ==
    /\ live = InitLive
    /\ files = <<>>
    /\ info = <<>>
    /\ wx = [d \in {WsPath} |-> TRUE]
    /\ cwd = WsPath
    /\ conf \in [show_hidden : {1}, filter : {NULL}, unicode : {0},
                 case_sens_list : {0, 1}, sort_reverse : {0, 1},
                 sort : {"SNONE", "SNAME", "STSIZE", "SEXT"},
                 list_dirs_first : {0, 1}, light_mode : {0}, locale : {"C", "en_US"}]
    /\ trash_n = 0
    /\ now = 1
    /\ last = NoCmd
    /\ ncmd = 0
    /\ recur_perm_error_flag = 0

NextCmp == \E a \in CmpEntries, b \in CmpEntries : EntryCmp(a, b)

SpecCmp == InitCmp /\ [][NextCmp]_vars

(***************************************************************************)
(* Properties                                                              *)
(***************************************************************************)
TrashItems == IF last.cmd = "trash" THEN {last.items[i] : i \in DOMAIN last.items} ELSE {}

UndelItems == IF last.cmd = "undel" THEN {last.items[i] : i \in DOMAIN last.items} ELSE {}

\* The absolute path a trash argument names, against the workspace.
AbsOf(arg) == IF arg[1] = "/" THEN arg ELSE PathJoin(WsPath, arg)

\* C1. Pairing invariant: a name N is in files/ if and only if N.trashinfo is
\* in info/, after any sequence of Trash, Remove, Clear and Untrash,
\* including runs in which an individual step fails.
C1_Pairing ==
    \A N \in EntryNames(Fs) : N \in DOMAIN files <=> InfoName(N) \in DOMAIN info

\* C2. Trash round-trip: when Trash of an absolute path P has succeeded, met by
\* no input/output fault, and the next command is Untrash of the resulting
\* entry, met by no fault either, then Untrash succeeds, the file trashed is at
\* exactly P again with its content, and neither files/ nor info/ holds the
\* entry.
C2_RoundTrip ==
    [][(/\ last.cmd = "trash" /\ last.ret = EXIT_SUCCESS /\ Len(last.items) = 1
        /\ last.items[1].arg[1] = "/"
        /\ last.items[1].fault = "none"
        /\ last'.cmd = "undel" /\ Len(last'.items) = 1
        /\ last'.items[1].name = last.items[1].entry
        /\ last'.items[1].fault = "none")
       => (/\ last'.ret = EXIT_SUCCESS
           /\ last.items[1].arg \in DOMAIN live'
           /\ live'[last.items[1].arg] = last.items[1].pre
           /\ last.items[1].entry \notin DOMAIN files'
           /\ InfoName(last.items[1].entry) \notin DOMAIN info')]_vars

\* A file trashed by its absolute path at the first step is back in place,
\* with its first content, after an undel at the second step.
C2_Witness ==
    /\ ncmd = 2 /\ last.cmd = "undel" /\ last.ret = EXIT_SUCCESS
    /\ last.items[1].dest = PathJoin(WsPath, ShortName)
    /\ PathJoin(WsPath, ShortName) \in DOMAIN live
    /\ live[PathJoin(WsPath, ShortName)].data = "short"
    /\ files = <<>> /\ info = <<>>

\* C3. When the sidecar cannot be created after the file was moved into
\* files/, the moved file is removed from files/ and the item is reported as
\* failed: trash_file returns non-zero, the item is not counted as trashed, and
\* the exit status of the batch is failure.
C3_SidecarFailureReported ==
    \A it \in TrashItems :
        it.fault = "info_open_fail"
        => /\ it.entry \notin DOMAIN files
           /\ it.ret # EXIT_SUCCESS
           /\ last.n <= Len(last.items) - 1
           /\ last.ret = EXIT_FAILURE

\* C4. Working-directory restoration: list, del, clear and undel return with
\* the working directory the process had when the command started, on every
\* exit path.
C4_CwdRestored ==
    last.cmd \in {"list", "del", "del_prompt", "clear", "undel", "undel_all",
                  "undel_prompt"}
    => cwd = last.cwd0

\* C5. Untrash collision: Untrash of an entry (both halves in the trash) whose
\* decoded original path exists on disk (in a directory that can be written
\* and searched, and met by no fault) fails with EEXIST, leaves what is at
\* that path as it was, and leaves files/<name> and info/<name>.trashinfo in
\* place.
C5_Collision ==
    \A it \in UndelItems :
        (it.paired /\ it.destfile # NoFile /\ it.fault = "none" /\ wx[WsPath])
        => /\ it.ret = "EEXIST"
           /\ lstat(Fs, cwd, it.dest) = it.destfile
           /\ it.name \in DOMAIN files
           /\ InfoName(it.name) \in DOMAIN info

\* C6. Permission-denied propagation: Trash of a file whose parent directory
\* lacks write or execute permission fails for that item, the file stays where
\* it was, and nothing is added to files/ or info/.
C6_PermissionDenied ==
    \A it \in TrashItems :
        (it.checked /\ ~wx[WsPath])
        => /\ it.ret # EXIT_SUCCESS
           /\ last.ret = EXIT_FAILURE
           /\ it.same
           /\ it.pre # NoFile
           /\ LstatAbs(Fs, AbsOf(it.arg)) = it.pre

\* A trash command was given an existing file of a workspace the user may
\* neither write nor search.
C6_Witness ==
    /\ ~wx[WsPath]
    /\ \E it \in TrashItems : it.checked /\ it.pre # NoFile /\ it.ret = EXIT_FAILURE

\* C7. Idempotent Clear: when Clear is called twice in a row (the first call
\* having succeeded), the second call finds zero trashed files, returns
\* success, and leaves the trash contents and the working directory as they
\* were after the first call.
C7_IdempotentClear ==
    [][(/\ last.cmd = "clear" /\ last.ret = EXIT_SUCCESS /\ last.rmfail = {}
        /\ last'.cmd = "clear" /\ ncmd' = ncmd + 1)
       => (/\ last'.files_n = 0
           /\ last'.ret = EXIT_SUCCESS
           /\ files' = files /\ info' = info
           /\ cwd' = cwd)]_vars

\* C8. Clear removes all: after a Clear that returned success, files/ and
\* info/ hold no entry, whatever the names of the entries and whatever the
\* show-hidden setting and the filter are.
C8_ClearRemovesAll ==
    (last.cmd = "clear" /\ last.ret = EXIT_SUCCESS) => (files = <<>> /\ info = <<>>)

\* C9. Sidecar path fidelity: after every successful Trash of a path P, the
\* Path= value of the sidecar percent-decodes to the absolute original path of
\* the file (a relative P taken against the workspace), also when the name
\* was cut and closed with a tilde.
C9_PathFidelity ==
    \A it \in TrashItems :
        (it.ret = EXIT_SUCCESS /\ it.fault \in {"none", "xdev_mv_ok"})
        => /\ InfoName(it.entry) \in DOMAIN info
           /\ info[InfoName(it.entry)].has_path
           /\ url_decode(info[InfoName(it.entry)].path) = AbsOf(it.arg)

\* C10. Name-too-long is not an error: Trash of an existing, permitted file
\* whose base name is too long for NAME_MAX succeeds, for an absolute as for a
\* relative path: the file is in files/ under the cut name and no error is
\* reported.
C10_LongNameTrashed ==
    \A it \in TrashItems :
        (/\ it.checked /\ wx[WsPath] /\ it.fault = "none"
         /\ Len(Basename(it.arg)) + Len(gen_date_suffix(now)) + 11 > NAME_MAX)
        => /\ it.ret = EXIT_SUCCESS
           /\ last.ret = EXIT_SUCCESS
           /\ it.entry = TrimName(Basename(it.arg), gen_date_suffix(now))
                             \o <<".">> \o gen_date_suffix(now)
           /\ it.entry \in DOMAIN files
           /\ files[it.entry] = it.pre

\* C11. Trash-name-length bound: for every length of the base name up to
\* NAME_MAX, the name built by Trash, with its ".trashinfo" extension, is not
\* longer than NAME_MAX; when the name is cut, what is kept ends in a tilde,
\* and the index the tilde is written at lies inside the original name.
C11_NameLength ==
    \A it \in TrashItems :
        it.entry # NULL
        => /\ Len(it.entry) + Len(TrashInfoExt) <= NAME_MAX
           /\ Len(Basename(it.arg)) + Len(gen_date_suffix(now)) + 11 > NAME_MAX
              => /\ it.entry[Len(it.entry) - Len(gen_date_suffix(now)) - 1] = "~"
                 /\ TildeIndex(Len(Basename(it.arg)), Len(gen_date_suffix(now)))
                        \in 0..(Len(Basename(it.arg)) - 1)
                 /\ Len(it.entry) + Len(TrashInfoExt) = NAME_MAX

\* A name of NAME_MAX bytes was cut and trashed.
C11_Witness ==
    \E it \in TrashItems :
        /\ Len(Basename(it.arg)) = NAME_MAX
        /\ it.ret = EXIT_SUCCESS
        /\ it.entry \in DOMAIN files
        /\ Len(it.entry) < NAME_MAX

\* C12. Trashed-entry lifecycle: an entry with both halves in the trash keeps
\* its content and its sidecar through every step that is not an Untrash, a
\* Remove or a Clear; a later Trash (met by no fault) of another file, of the
\* same base name and in the same second included, leaves it as it is.
C12_EntryKept ==
    [][(\/ last'.cmd \in {"list", "env"}
        \/ /\ last'.cmd = "trash"
           /\ \A i \in DOMAIN last'.items : last'.items[i].fault = "none")
       => \A N \in DOMAIN files :
              InfoName(N) \in DOMAIN info
              => /\ N \in DOMAIN files'
                 /\ files'[N] = files[N]
                 /\ InfoName(N) \in DOMAIN info'
                 /\ info'[InfoName(N)] = info[InfoName(N)]]_vars

\* Is a the beginning of b?
IsPrefix(a, b) == Len(a) <= Len(b) /\ SubSeq(b, 1, Len(a)) = a

\* The place p is the trash directory, a directory above it, or inside it.
UnderTrash(p) ==
    \/ p = <<"/">>
    \/ IsPrefix(p \o <<"/">>, trash_dir \o <<"/">>)
    \/ IsPrefix(trash_dir \o <<"/">>, p \o <<"/">>)

\* C13. Cannot trash the trash: Trash turns down, and moves nothing for, every
\* path that leads to the trash directory itself, to a directory above it, or
\* to a place inside it.
C13_TrashRejected ==
    \A it \in TrashItems :
        UnderTrash(Canon(AbsOf(it.arg)))
        => /\ ~it.checked
           /\ it.ret # EXIT_SUCCESS
           /\ it.same
           /\ last.ret = EXIT_FAILURE

\* C14. Natural order of the Name sort: the names img2, img10 and img1, sorted
\* by name and not reversed, come out as img1, img2, img10.
C14_NaturalOrder ==
    (last.cmd = "sort" /\ conf.sort = "SNAME" /\ conf.sort_reverse = 0)
    => last.order = << <<"i", "m", "g", "1">>, <<"i", "m", "g", "2">>,
                       <<"i", "m", "g", "1", "0">> >>

\* x and y have opposite signs, or are both zero.
Opposite(x, y) == (x = 0 /\ y = 0) \/ (x < 0 /\ y > 0) \/ (x > 0 /\ y < 0)

\* C15 as it is stated. Reverse invertibility: for any two entries, any sort
\* key and any setting of directories-first, entrycmp with reverse off and
\* with reverse on give results of opposite signs, or both zero.
C15_ReverseAlways ==
    last.cmd = "rev" => Opposite(last.ret, last.before)

\* C15, amended. Reverse invertibility: entrycmp with reverse off and with
\* reverse on give results of opposite signs, or both zero, except when
\* directories come first and one entry only is a directory: the directory
\* then comes first both ways, and the two results are the same.
C15_ReverseOpposite ==
    last.cmd = "rev"
    => IF conf.list_dirs_first = 1 /\ last.a.dir # last.b.dir
       THEN last.ret = last.before /\ last.ret # 0
       ELSE Opposite(last.ret, last.before)

\* A file was before a directory by name, and is after it once reversed.
C15_Witness ==
    /\ last.cmd = "rev" /\ conf.list_dirs_first = 0 /\ conf.sort = "SNAME"
    /\ last.a.dir = 0 /\ last.b.dir = 1
    /\ last.before < 0 /\ last.ret > 0

\* C16. Directories-first: with list_dirs_first set, a directory compared with
\* a non-directory gives a negative result, a non-directory compared with a
\* directory a positive one, for every sort key; two entries of the same kind
\* compare as they do without list_dirs_first.
C16_DirsFirst ==
    (last.cmd \in {"entrycmp", "rev"} /\ conf.list_dirs_first = 1)
    => /\ (last.a.dir = 1 /\ last.b.dir = 0) => last.ret < 0
       /\ (last.a.dir = 0 /\ last.b.dir = 1) => last.ret > 0
       /\ (last.a.dir = last.b.dir)
          => last.ret = entrycmp([conf EXCEPT !.list_dirs_first = 0], last.a, last.b)

\* The directory z was compared with the file a, in reverse order, and came
\* first.
C16_Witness ==
    /\ last.cmd = "entrycmp" /\ conf.list_dirs_first = 1 /\ conf.sort_reverse = 1
    /\ last.a.name = <<"z">> /\ last.a.dir = 1
    /\ last.b.name = <<"a">> /\ last.b.dir = 0
    /\ last.ret < 0

\* The bytes of s in lower case.
Lowered(s) == [i \in 1..Len(s) |-> ToLower(s[i])]

Sign(x) == IF x > 0 THEN 1 ELSE IF x < 0 THEN -1 ELSE 0

\* The order of the extension sort, a dot at an index from FIRST on beginning
\* an extension: no extension before any, extensions compared without regard
\* to case, and the name comparator when they are equal or both absent.
ExtensionOrder(first, cf, a, b, ret) ==
    LET ea == strrchr(a, ".") >= first
        eb == strrchr(b, ".") >= first
        xa == Lowered(SubSeq(a, strrchr(a, ".") + 1, Len(a)))
        xb == Lowered(SubSeq(b, strrchr(b, ".") + 1, Len(b)))
    IN  /\ (~ea /\ eb) => ret < 0
        /\ (ea /\ ~eb) => ret > 0
        /\ (ea /\ eb /\ xa # xb) => Sign(ret) = Sign(strcmp(xa, xb))
        /\ ((~ea /\ ~eb) \/ (ea /\ eb /\ xa = xb)) => ret = namecmp(cf, a, b)

\* Two entries of one kind were compared by extension, not reversed.
ByExtension ==
    /\ last.cmd = "entrycmp" /\ conf.sort = "SEXT" /\ conf.sort_reverse = 0
    /\ last.a.dir = last.b.dir

\* C17 as it is stated. Extension sort: the extension of a name is what
\* follows its last dot; extensions are compared without regard to case; a
\* name without an extension sorts before a name with one; the name
\* comparator decides when the extensions are equal or both absent.
C17_ExtensionAnyDot ==
    ByExtension => ExtensionOrder(1, conf, last.a.name, last.b.name, last.ret)

\* C17, amended. Extension sort: the extension of a name is what follows its
\* last dot, when that dot is not the first byte of the name (a hidden file
\* such as .z has no extension); extensions are compared without regard to
\* case; a name without an extension sorts before a name with one; the name
\* comparator decides when the extensions are equal or both absent.
C17_ExtensionSort ==
    ByExtension => ExtensionOrder(2, conf, last.a.name, last.b.name, last.ret)

\* The hidden file .z, compared by extension with a.b, came first; and so
\* did a.gz before b.GZ in another comparison of the same kind.
C17_Witness ==
    /\ ByExtension
    /\ \/ last.a.name = <<".", "z">> /\ last.b.name = <<"a", ".", "b">>
       \/ last.a.name = <<"a", ".", "g", "z">> /\ last.b.name = <<"b", ".", "G", "Z">>
    /\ last.ret < 0

\* C18. Total order: for every sort key, entrycmp gives zero for two entries
\* only when their names are equal.
C18_TotalOrder ==
    (last.cmd = "entrycmp" /\ last.ret = 0) => last.a.name = last.b.name

\* The absolute path the i-th argument of the last trash command names.
ItemPath(it) == AbsOf(StripSlash(dequote_str(it.arg, "none")))

\* The item went through validation, is no immutable file, and the user may
\* write and search its parent directory.
ItemPermitted(it) ==
    /\ it.checked
    /\ it.pre # NoFile
    /\ ~it.pre.immut
    /\ AccessAt(Fs, strbfrlst(ItemPath(it), "/"))

\* The item is in the trash: its file under files/, its sidecar under info/,
\* and nothing left at its path.
ItemTrashed(it) ==
    /\ it.entry # NULL
    /\ it.entry \in DOMAIN files
    /\ InfoName(it.entry) \in DOMAIN info
    /\ ItemPath(it) \notin DOMAIN live

\* C19. Batch isolation for Trash: in a trash command over two arguments, every
\* argument that is valid and permitted is trashed whatever became of the
\* other one, and the command's exit status is failure if and only if at
\* least one argument was not trashed.
C19_BatchIsolation ==
    (last.cmd = "trash" /\ Len(last.items) = 2) =>
        /\ \A it \in TrashItems : ItemPermitted(it) => ItemTrashed(it)
        /\ (last.ret = EXIT_FAILURE) <=> (\E it \in TrashItems : ~ItemTrashed(it))

\* C20. Counts always reported: every trash, del and undel command over
\* explicit arguments prints the number of items processed and the total
\* left in the trash, also when items of the batch failed.
C20_CountsReported ==
    (\/ last.cmd \in {"trash", "undel"}
     \/ last.cmd = "del" /\ ~last.cleared) => last.total # -1

\* C21. Reported totals are accurate: the total printed at the end of a trash
\* batch (trash_n + trashed_files), of a del batch (trash_n - rem_files) and
\* of undel all ("0 trashed files") is the number of entries of files/ at
\* that moment.
C21_TotalsAccurate ==
    (last.cmd \in {"trash", "del", "undel_all"} /\ last.total # -1) =>
        last.total = Cardinality(DOMAIN files)

\* Both halves of the entry N are in the trash.
Complete(N) == N \in DOMAIN files /\ InfoName(N) \in DOMAIN info

\* The halves of the entry N are after the step what they were before it.
HalvesKept(N) ==
    /\ N \in DOMAIN files => (N \in DOMAIN files' /\ files'[N] = files[N])
    /\ InfoName(N) \in DOMAIN info =>
           (InfoName(N) \in DOMAIN info' /\ info'[InfoName(N)] = info[InfoName(N)])

\* A del command over names or numbers has just run.
DelStep ==
    \/ last'.cmd = "del" /\ ~last'.cleared
    \/ last'.cmd = "del_prompt" /\ last'.path \in {"numbers", "all"}

\* C22. Remove tolerates bad items: in a del batch with an item that lacks its
\* files/ half or its info/ half, or a number outside [1, count], the
\* surviving half of a bad item is left as it is, every other item selected
\* (both halves there, rm not failing for it) is removed, both halves, and
\* the exit status is failure.
C22_RemoveTolerates ==
    [][(/\ DelStep
        /\ \E i \in DOMAIN last'.items :
               last'.items[i].name = NULL \/ ~Complete(last'.items[i].name))
       => /\ last'.ret = EXIT_FAILURE
          /\ \A i \in DOMAIN last'.items :
                 \/ last'.items[i].name = NULL
                 \/ /\ ~Complete(last'.items[i].name)
                    /\ HalvesKept(last'.items[i].name)
                 \/ /\ Complete(last'.items[i].name)
                    /\ \/ last'.items[i].ret = EXIT_FAILURE
                       \/ /\ last'.items[i].name \notin DOMAIN files'
                          /\ InfoName(last'.items[i].name) \notin DOMAIN info']_vars

\* The names the numbers of the last raced command selected.
RaceSelected == {last'.items[i].name : i \in DOMAIN last'.items} \ {NULL}

\* The entry N has both halves, and a Path= line in its sidecar.
Sound(N) == Complete(N) /\ info[InfoName(N)].has_path

\* C23. Race with another process: when an entry is deleted between the
\* listing and the work of a del or undel at the prompt, the command reports
\* an error for that entry only, every other entry selected (sound, selected
\* once) is removed or restored, and no entry that was not selected is
\* touched.
C23_RaceIsolated ==
    [][(/\ last'.cmd \in {"del_race", "undel_race"}
        /\ last'.path = "numbers"
        /\ \A i, j \in DOMAIN last'.items :
               last'.items[i].name = last'.items[j].name => i = j)
       => /\ \A i \in DOMAIN last'.items :
                 (/\ last'.items[i].name # NULL
                  /\ last'.items[i].name # last'.victim
                  /\ Sound(last'.items[i].name))
                 => /\ last'.items[i].ret = EXIT_SUCCESS
                    /\ last'.items[i].name \notin DOMAIN files'
                    /\ InfoName(last'.items[i].name) \notin DOMAIN info'
          /\ \A N \in DOMAIN files \ (RaceSelected \cup {last'.victim}) :
                 HalvesKept(N)]_vars

\* The sidecar of the trashed file N is missing, or holds no Path= value.
BadSidecar(N) ==
    /\ N \in DOMAIN files
    /\ InfoName(N) \notin DOMAIN info \/ ~info[InfoName(N)].has_path

\* C24. Untrash with a corrupt or missing sidecar: in an undel batch, an item
\* whose sidecar is missing or has no Path= value is reported by an error
\* naming it, its file stays in files/, the item fails, and the remaining
\* items of the batch are still worked on.
C24_BadSidecar ==
    [][(/\ last'.cmd = "undel"
        /\ \A i, j \in DOMAIN last'.items :
               last'.items[i].name = last'.items[j].name => i = j)
       => \A i \in DOMAIN last'.items :
              BadSidecar(last'.items[i].name)
              => /\ untrash_xerror(Fs, last'.items[i].name) = last'.items[i].name
                 /\ last'.items[i].name \in DOMAIN files'
                 /\ files'[last'.items[i].name] = files[last'.items[i].name]
                 /\ last'.items[i].ret # EXIT_SUCCESS
                 /\ last'.ret = EXIT_FAILURE
                 /\ \A j \in DOMAIN last'.items :
                        (Sound(last'.items[j].name) /\ last'.items[j].fault = "none")
                        => last'.items[j].name \notin DOMAIN files']_vars

\* The directories at any depth below the directory d.
SubdirsBelow(d) == {k \in DOMAIN live : Below(d, k) /\ k # d /\ live[k].kind = "dir"}

\* The directory k lacks write or search permission, cannot be opened, or is
\* immutable.
Offending(k) == ~wx[k] \/ ~live[k].rd \/ live[k].immut

\* C25. Recursive directory preflight: the trash of a directory fails, and
\* moves nothing, whenever a subdirectory at any depth below it lacks write
\* and search permission, cannot be opened, or is immutable.
C25_RecursivePreflight ==
    [][(/\ last'.cmd = "trash"
        /\ last'.items[1].pre.kind = "dir"
        /\ \E k \in SubdirsBelow(ItemPath(last'.items[1])) : Offending(k))
       => /\ last'.ret = EXIT_FAILURE
          /\ live' = live
          /\ files' = files
          /\ info' = info]_vars

\* C26. Light-mode degradation: with light_mode set and the key Owner or
\* Group, entrycmp returns for every pair what it returns with the key Name
\* under the same directories-first and reverse settings, and the sort
\* method printed says that 'name' is being used.
C26_LightMode ==
    (conf.light_mode = 1 /\ conf.sort \in {"SOWN", "SGRP"}) =>
        /\ last.cmd \in {"entrycmp", "rev"} =>
               last.ret = entrycmp([conf EXCEPT !.sort = "SNAME"], last.a, last.b)
        /\ last.cmd = "method" =>
               /\ Len(last.text) = 3
               /\ last.text[1] = (IF conf.sort = "SOWN" THEN "owner" ELSE "group")
               /\ last.text[2] = "(not available: using 'name')"

\* Two entries of different owners and groups, whose names order them the
\* other way round, have been compared in light mode under the key Owner or
\* Group.
C26_Witness ==
    /\ conf.light_mode = 1 /\ conf.sort \in {"SOWN", "SGRP"}
    /\ last.cmd = "entrycmp"
    /\ sort_by_owner(last.a.uid, last.b.uid) * last.ret < 0
    /\ sort_by_group(last.a.gid, last.b.gid) * last.ret < 0

\* C27. Overflow-free reversal: with sort_reverse set, the reversal at the
\* end of entrycmp, xalphasort and alphasort_insensitive overflows for no
\* value of int the comparison underneath returns, INT_MIN and the values
\* whose double is beyond INT_MAX in magnitude included, and what is
\* returned has the opposite sign.
C27_NoOverflow ==
    (last.cmd = "reverse" /\ conf.sort_reverse = 1) =>
        /\ ~last.out.overflow
        /\ ~last.out.trap
        /\ Sign(last.out.val) = -Sign(last.ret)

\* The names a listing printed, by number.
Printed(q) == {q[i] : i \in 1..Len(q)}

\* C28. List completeness and stability: List shows every entry of files/
\* but "." and "..", each once, and a Remove or an Untrash at the prompt
\* that comes next, nothing having changed the trash or the settings of
\* the listing in between, numbers the entries as List did.
C28_ListComplete ==
    [][/\ (last'.cmd = "list" /\ ~last'.scan_err) =>
              /\ Printed(last'.printed) = DOMAIN files'
              /\ Len(last'.printed) = Cardinality(DOMAIN files')
       /\ (/\ last.cmd = "list" /\ ~last.scan_err
           /\ last'.cmd \in {"del_prompt", "undel_prompt"}
           /\ last'.path # "scandir") =>
              last'.listing = last.printed]_vars

\* The entries whose removal a Clear attempted and saw fail.
ClearFailed == last'.rmfail \cap ScanTrash(Fs, conf)

\* C29. Clear failure semantics: Clear returns failure if and only if a
\* removal failed; the entries whose removal did not fail are gone, before
\* and after a failing one; and "Trash can emptied" is printed only when no
\* removal failed.
C29_ClearFailure ==
    [][last'.cmd = "clear" =>
          /\ (last'.ret # EXIT_SUCCESS) <=> (ClearFailed # {})
          /\ \A n \in ScanTrash(Fs, conf) \ ClearFailed :
                 n \notin DOMAIN files' /\ InfoName(n) \notin DOMAIN info'
          /\ last'.emptied_msg => ClearFailed = {}]_vars

\* The one item of the undel command of this step failed, before the move or
\* in it: not in the removal of the sidecar that follows a move.
UndelFailedEarly ==
    /\ last'.cmd = "undel" /\ Len(last'.items) = 1
    /\ last'.items[1].ret # EXIT_SUCCESS
    /\ ~(/\ last'.items[1].fault = "rm_info_fail"
         /\ untrash_file(Fs, cwd, last'.items[1].name, "none").ret = EXIT_SUCCESS)

\* C30. Failed Untrash changes nothing: when the Untrash of an item fails
\* before the move or because the move fails, files/<name> and
\* info/<name>.trashinfo are as they were and no file is created at the
\* destination.
C30_FailedUntrash ==
    [][UndelFailedEarly =>
          /\ files' = files
          /\ info' = info
          /\ live' = live]_vars

\* C31. A failed move is never reported as success: when neither renameat
\* nor mv(1) moved the file into files/, trash_file returns a non-zero
\* value, no sidecar is written, and the item is not counted as trashed.
C31_FailedMove ==
    [][(/\ last'.cmd = "trash" /\ Len(last'.items) = 1
        /\ last'.items[1].checked
        /\ last'.items[1].entry = NULL) =>
           /\ last'.items[1].ret # EXIT_SUCCESS
           /\ info' = info
           /\ last'.n = 0
           /\ last'.ret = EXIT_FAILURE]_vars

\* A trash has met a move that failed: renameat, or mv(1) after EXDEV.
C31_Witness ==
    /\ last.cmd = "trash" /\ Len(last.items) = 1
    /\ last.items[1].fault \in {"rename_err", "xdev_mv_fail", "xdev_mv_copied"}
    /\ last.items[1].entry = NULL
    /\ last.items[1].ret \in {"EACCES", "EXDEV"}
    /\ last.n = 0

\* The number a string of digits writes is within 0..SORT_TYPES.
NumberInRange(v) == ~v.over /\ v.hi = 0 /\ v.lo <= SORT_TYPES

\* What st was given names no method and no number of the range.
StRejected(arg1) ==
    IF is_number(arg1)
    THEN ~NumberInRange(DigitsValue(arg1, 1, [lo |-> 0, hi |-> 0, over |-> FALSE]))
    ELSE arg1 # Rev /\ \A i \in 1..Len(sort_methods) : sort_methods[i] # arg1

\* C32. Sort-key invariant: after every sort command conf.sort is one of
\* the keys 0..SORT_TYPES; a command naming no method, or a number outside
\* the range, leaves the key and the reverse flag as they were; and "rev"
\* flips the reverse flag and leaves the key.
C32_SortKey ==
    [][last'.cmd = "st" =>
          /\ \E n \in 0..SORT_TYPES : conf'.sort = SortOfNum[n + 1]
          /\ StRejected(last'.arg1) => conf' = conf
          /\ last'.arg1 = Rev =>
                 /\ conf'.sort = conf.sort
                 /\ conf'.sort_reverse = 1 - conf.sort_reverse]_vars

\* C33. Fast path equals full comparison: with sort_reverse off,
\* xalphasort(a, b) has the sign of strcmp(a, b), the comparison of the
\* whole names byte by byte, for every pair of names.
C33_FastPath ==
    (last.cmd = "xalphasort" /\ conf.sort_reverse = 0) =>
        Sign(last.ret) = Sign(strcmp(last.a, last.b))

\* C34. Comparator consistency: under every configuration entrycmp is
\* antisymmetric in sign and transitive over the entries, names that mix
\* punctuation in front, runs of digits, zeros in front and letters of both
\* cases included.
C34_Consistent ==
    last.cmd = "entrycmp" =>
        /\ Sign(last.ret) = -Sign(entrycmp(conf, last.b, last.a))
        /\ \A c \in CmpEntries :
               (last.ret <= 0 /\ entrycmp(conf, last.b, c) <= 0) =>
                   entrycmp(conf, last.a, c) <= 0

\* The directory d, its parent and every directory below d may be written,
\* searched and opened, and none of them is immutable.
TreePermitted(d) ==
    /\ AccessAt(Fs, strbfrlst(d, "/"))
    /\ wx[d] /\ live[d].rd /\ ~live[d].immut
    /\ \A k \in SubdirsBelow(d) : ~Offending(k)

\* C35. Preflight independence: a directory whose own tree is fully
\* permitted passes the preflight and is trashed, whatever the preflight of
\* an earlier item of the same command, or of an earlier command, left in
\* recur_perm_error_flag.
C35_Independent ==
    [][last'.cmd = "trash" =>
          \A i \in DOMAIN last'.items :
              (/\ last'.items[i].checked
               /\ last'.items[i].pre # NoFile
               /\ last'.items[i].pre.kind = "dir"
               /\ ItemPath(last'.items[i]) \in DOMAIN live
               /\ TreePermitted(ItemPath(last'.items[i])))
              => last'.items[i].ret = EXIT_SUCCESS]_vars

\* The walk of x has met a subdirectory without permission, and y, trashed
\* after it in the same command, went to the trash.
C35_Witness ==
    /\ last.cmd = "trash" /\ Len(last.items) = 2
    /\ last.items[1].arg = <<"x">> /\ last.items[1].ret = EXIT_FAILURE
    /\ wx[DirX] /\ wx[DirS] /\ ~wx[DirE]
    /\ last.items[2].arg = <<"y">> /\ last.items[2].ret = EXIT_SUCCESS
    /\ DirY \notin DOMAIN live
    /\ recur_perm_error_flag = 0

\* The flag is still set when the next command starts, and y is trashed by
\* that command.
C35_LaterCommand ==
    [][(/\ recur_perm_error_flag = 1 /\ last'.cmd = "trash"
        /\ last'.items[1].arg = <<"y">> /\ DirY \in DOMAIN live)
       => last'.items[1].ret = EXIT_SUCCESS]_vars

\* The path p is the trash directory, one of the directories above it, or
\* lies inside it.
TrashRelated(p) == p = <<"/">> \/ Below(p, trash_dir) \/ Below(trash_dir, p)

\* C36. No false rejection by the trash-root check: an existing file that is
\* neither the trash directory, nor a directory above it, nor inside it, goes
\* through check_trash_file, even when its path begins with the characters
\* of the path of the trash directory.
C36_NoFalseRejection ==
    last.cmd = "trash" =>
        \A it \in TrashItems :
            (/\ it.fault # "dequote_fail"
             /\ it.pre # NoFile
             /\ it.pre.kind \notin {"blk", "chr"}
             /\ ~TrashRelated(ItemPath(it)))
            => it.checked

\* C37. compare_strings is a usable qsort comparison routine, in the build
\* with HAVE_STRCOLL and in the build without: it returns zero only when the
\* two strings are equal, a value of the opposite sign when they are given
\* the other way round, and the order it gives is transitive.
C37_Usable ==
    last.cmd = "compare_strings" =>
        /\ (last.ret = 0) <=> (last.a = last.b)
        /\ Sign(last.ret) =
               -Sign(compare_strings(last.have_strcoll, last.b, last.a, last.char_signed))
        /\ \A c \in AlphaNames :
               (/\ last.ret <= 0
                /\ compare_strings(last.have_strcoll, last.b, c, last.char_signed) <= 0)
               => compare_strings(last.have_strcoll, last.a, c, last.char_signed) <= 0

====
